---------------------------- MODULE Spec2Model ----------------------------
(***************************************************************************)
(* BibleTime bookmark tree store (src/backend/btbookmarksmodel.cpp).      *)
(*                                                                         *)
(* The tree is an arena `items` of nodes addressed by pointer (a natural   *)
(* number; 0 is the null pointer).  A QModelIndex is modelled by its       *)
(* internalPointer; the invalid index is 0 and resolves to the root.       *)
(* Strings are sequences of character codes.                               *)
(***************************************************************************)
EXTENDS Integers, Sequences, FiniteSets, TLC

VARIABLES
    items,          \* heap of BookmarkItemBase objects: pointer -> fields
    m_rootItem,     \* per store: BtBookmarksModelPrivate::m_rootItem
    storeState,     \* per store: "none" | "live" | "destroyed"
    m_defaultModel, \* static BtBookmarksModelPrivate::m_defaultModel
    m_saveTimer,    \* per store: QTimer m_saveTimer (active, remaining seconds)
    connected,      \* per store: connections of m_saveTimer.timeout to slotSave
    files,          \* the file system: file name -> content
    sinceDirty,     \* per store: seconds since the needSave that started the running timer; -1 if none
    lastSaved,      \* per store: the whole tree as last loaded from or saved to the default file
    last,           \* observer: the name and the store of the last step, in the specifications that record it
    crashed,        \* the process was aborted (failed assertion, null dereference)
    m_throttledHighlightWords,   \* BtQmlInterface: the request waiting for the timer, if any
    m_lastAppliedHighlightWords, \* BtQmlInterface: the request last handed to the text model, if any
    m_highlightWordsTimerId,     \* BtQmlInterface: id of the running highlight timer, 0 if none
    m_linkTimerId,               \* BtQmlInterface: id of the running link timer, 0 if none
    m_timeoutUrl,                \* BtQmlInterface: the url the link timer is waiting with
    m_findState,                 \* BtQmlInterface: the position of the text search, if any
    m_moduleTextModel,           \* BtModuleTextModel: highlight words, find state, calls of setHighlightWords
    highlightRequests            \* number of calls of BtQmlInterface::setHighlightWords so far

\* the state of the bookmark stores
storeVars == <<items, m_rootItem, storeState, m_defaultModel, m_saveTimer,
               connected, files, sinceDirty, lastSaved, crashed>>

\* the state of the BtQmlInterface object and its text model
interfaceVars == <<m_throttledHighlightWords, m_lastAppliedHighlightWords,
                   m_highlightWordsTimerId, m_linkTimerId, m_timeoutUrl, m_findState,
                   m_moduleTextModel, highlightRequests>>

vars == <<storeVars, last, interfaceVars>>

-----------------------------------------------------------------------------
(* Bounds of the model *)

\* number of heap cells available to BookmarkItemBase objects
MaxItems == 4
\* number of BtBookmarksModel objects that may be constructed
MaxStores == 2
\* largest count handed to insertRows / removeRows
MaxCount == 2
\* longest selection handed to copyItems
MaxSelection == 2

-----------------------------------------------------------------------------
(* Program constants *)

NULL == 0
SaveIntervalSeconds == 30
CURRENT_SYNTAX_VERSION == 1

Ids == 1 .. MaxItems
Stores == 1 .. MaxStores

-----------------------------------------------------------------------------
(* Strings *)

EmptyStr == << >>
Str_Root == <<82, 111, 111, 116>>
Str_NewFolder == <<78, 101, 119, 32, 102, 111, 108, 100, 101, 114>>
Str_unknown == <<117, 110, 107, 110, 111, 119, 110>>
Str_a == <<97>>
Str_b == <<98>>
Str_k == <<107>>
Str_d == <<100>>
Str_GenBook == <<71>>
Str_Bible == <<75, 74, 86>>
Str_Gone == <<88>>

isEmpty(s) == Len(s) = 0

toHeader(key, moduleName) == key \o <<32, 40>> \o moduleName \o <<41>>

RECURSIVE compare(_, _)
compare(s, t) ==
    IF s = << >> /\ t = << >> THEN 0
    ELSE IF s = << >> THEN -1
    ELSE IF t = << >> THEN 1
    ELSE IF Head(s) < Head(t) THEN -1
    ELSE IF Head(s) > Head(t) THEN 1
    ELSE compare(Tail(s), Tail(t))

Range(s) == { s[i] : i \in 1 .. Len(s) }

-----------------------------------------------------------------------------
(* Module registry and key localisation (external collaborators) *)

InstalledModules == { Str_GenBook, Str_Bible }

findModuleByName(name) == name \in InstalledModules

isVerseModule(name) == name = Str_Bible

\* CSwordVerseKey::key() in the book name language: the localised key
toLocalized(key) == IF isEmpty(key) THEN key ELSE <<76>> \o key

\* CSwordVerseKey::key() in locale "en": the canonical key
toCanonical(key) ==
    IF ~isEmpty(key) /\ Head(key) = 76 THEN Tail(key) ELSE key

\* CSwordModuleInfo::config(Description)
moduleDescription(name) == <<68>> \o name


-----------------------------------------------------------------------------
(* BookmarkItemBase and its subclasses *)

\* a BookmarkItemBase object; kind is its dynamic type
\* ("Base" = plain BookmarkItemBase, "Folder" = BookmarkFolder, "Bookmark" = BookmarkItem)
ItemRec(kind, parent, text, tooltip, key, description, moduleName) ==
    [ kind          |-> kind,
      m_parent      |-> parent,
      m_children    |-> << >>,
      m_text        |-> text,
      m_tooltip     |-> tooltip,
      m_key         |-> key,
      m_description |-> description,
      m_moduleName  |-> moduleName ]

\* operator new: the address of the next object
NewId(a) ==
    CHOOSE i \in 1 .. Cardinality(DOMAIN a) + 1 :
        /\ i \notin DOMAIN a
        /\ \A j \in 1 .. i - 1 : j \in DOMAIN a

\* the heap holds at most MaxItems objects
Fits(a) == DOMAIN a \subseteq Ids

isFolderItem(a, p) == a[p].kind = "Folder"
isBookmarkItem(a, p) == a[p].kind = "Bookmark"

childCount(a, p) == Len(a[p].m_children)

\* child(index), index counted from 0
child(a, p, index) == a[p].m_children[index + 1]

\* BookmarkItemBase(BookmarkItemBase * parent): registers itself with the parent
BookmarkItemBase_new(a, id, rec) ==
    LET a1 == a @@ (id :> rec) IN
    IF rec.m_parent # NULL
    THEN [a1 EXCEPT ![rec.m_parent].m_children = Append(@, id)]
    ELSE a1

addChild(a, p, c) ==
    [a EXCEPT ![c].m_parent = p, ![p].m_children = Append(@, c)]

\* an insertion that always puts the item first
InsertAt_front(s, index, x) == <<x>> \o s

InsertAt(s, index, x) ==
    SubSeq(s, 1, index) \o <<x>> \o SubSeq(s, index + 1, Len(s))

RemoveAt(s, index) ==
    SubSeq(s, 1, index) \o SubSeq(s, index + 2, Len(s))

insertChild(a, p, index, c) ==
    [a EXCEPT ![c].m_parent = p, ![p].m_children = InsertAt(@, index, c)]

\* an insertion that does not advance the index
RECURSIVE insertChildren_sameIndex(_, _, _, _)
insertChildren_sameIndex(a, p, index, children) ==
    IF children = << >> THEN a
    ELSE insertChildren_sameIndex(insertChild(a, p, index, Head(children)),
                                  p, index, Tail(children))

\* BookmarkItemBase::insertChildren
RECURSIVE insertChildren(_, _, _, _)
insertChildren(a, p, index, children) ==
    IF children = << >> THEN a
    ELSE insertChildren(insertChild(a, p, index, Head(children)),
                        p, index + 1, Tail(children))

\* the objects ~BookmarkItemBase destroys: the item and, through qDeleteAll, its subtree
RECURSIVE Subtree(_, _)
Subtree(a, p) ==
    {p} \cup UNION { Subtree(a, a[p].m_children[i]) : i \in 1 .. Len(a[p].m_children) }

\* a removal that always takes the first child
removeChild_first(a, p, index) ==
    LET dead == Subtree(a, child(a, p, 0))
        a1   == [a EXCEPT ![p].m_children = RemoveAt(@, 0)]
    IN  [ q \in DOMAIN a \ dead |-> a1[q] ]

\* BookmarkItemBase::removeChild
removeChild(a, p, index) ==
    LET dead == Subtree(a, child(a, p, index))
        a1   == [a EXCEPT ![p].m_children = RemoveAt(@, index)]
    IN  [ q \in DOMAIN a \ dead |-> a1[q] ]

\* the loop of BookmarkItemBase::index() over the children of the parent
indexOf(a, p) ==
    LET par == a[p].m_parent
        hits == { i \in 0 .. childCount(a, par) - 1 : child(a, par, i) = p }
    IN  IF hits = {} THEN -1 ELSE CHOOSE i \in hits : \A j \in hits : i <= j

\* BookmarkItem::key(): the key in the book name language
key(a, p) ==
    IF ~findModuleByName(a[p].m_moduleName) THEN a[p].m_key
    ELSE IF isVerseModule(a[p].m_moduleName) THEN toLocalized(a[p].m_key)
    ELSE a[p].m_key

\* the text both BookmarkItem(parent) and BookmarkItem(other) set
defaultText(k, moduleName) ==
    toHeader(k, IF findModuleByName(moduleName) THEN moduleName ELSE Str_unknown)

\* BookmarkFolder::BookmarkFolder(name, parent)
FolderRec(name, parent) ==
    ItemRec("Folder", parent, name, EmptyStr, EmptyStr, EmptyStr, EmptyStr)

\* new BookmarkItemBase
BaseRec == ItemRec("Base", NULL, EmptyStr, EmptyStr, EmptyStr, EmptyStr, EmptyStr)

\* BookmarkItem::BookmarkItem(BookmarkItemBase * parent): key and module are still empty
BookmarkRec(parent) ==
    ItemRec("Bookmark", parent, defaultText(EmptyStr, EmptyStr),
            EmptyStr, EmptyStr, EmptyStr, EmptyStr)

\* BookmarkItem::BookmarkItem(const BookmarkItem & other)
BookmarkCopyRec(a, other) ==
    LET base == ItemRec("Bookmark", a[other].m_parent, a[other].m_text,
                        a[other].m_tooltip, a[other].m_key,
                        a[other].m_description, a[other].m_moduleName)
        k == IF ~findModuleByName(base.m_moduleName) THEN base.m_key
             ELSE IF isVerseModule(base.m_moduleName) THEN toLocalized(base.m_key)
             ELSE base.m_key
    IN  [base EXCEPT !.m_text = defaultText(k, base.m_moduleName)]

\* a constructor that shows the title when one is given
BookmarkNewRec_titled(moduleName, k, description, title) ==
    ItemRec("Bookmark", NULL,
            IF isEmpty(title) THEN toHeader(k, moduleName) ELSE title, EmptyStr,
            IF isVerseModule(moduleName) THEN toCanonical(k) ELSE k,
            description, moduleName)

\* BookmarkItem::BookmarkItem(module, key, description, title)
BookmarkNewRec(moduleName, k, description, title) ==
    ItemRec("Bookmark", NULL, toHeader(k, moduleName), EmptyStr,
            IF isVerseModule(moduleName) THEN toCanonical(k) ELSE k,
            description, moduleName)

\* BookmarkFolder::getChildList
getChildList(a, p) == a[p].m_children

\* BookmarkFolder::hasDescendant
RECURSIVE hasDescendant(_, _, _)
hasDescendant(a, this, item) ==
    IF this = item THEN TRUE
    ELSE IF item \in Range(getChildList(a, this)) THEN TRUE
    ELSE \E i \in 1 .. Len(getChildList(a, this)) :
            LET childItem == getChildList(a, this)[i] IN
            /\ isFolderItem(a, childItem)
            /\ hasDescendant(a, childItem, childItem)

\* a copy that hands out the folder itself
deepCopy_shared(a, f) == [ a |-> a, p |-> f ]

\* BookmarkFolder::deepCopy: the heap after the copy and the pointer to the copy
RECURSIVE deepCopy(_, _)
RECURSIVE deepCopyChildren(_, _, _, _)
deepCopy(a, f) ==
    LET newFolder == NewId(a)
        a1 == a @@ (newFolder :> FolderRec(a[f].m_text, NULL))
    IN  [ a |-> deepCopyChildren(a1, newFolder, getChildList(a, f), 1),
          p |-> newFolder ]

deepCopyChildren(a, newFolder, kids, i) ==
    IF i > Len(kids) THEN a
    ELSE LET subitem == kids[i] IN
         IF isBookmarkItem(a, subitem)
         THEN LET nb == NewId(a)
                  a1 == a @@ (nb :> BookmarkCopyRec(a, subitem))
              IN  deepCopyChildren(addChild(a1, newFolder, nb), newFolder, kids, i + 1)
         ELSE IF isFolderItem(a, subitem)
         THEN LET r == deepCopy(a, subitem)
              IN  deepCopyChildren(addChild(r.a, newFolder, r.p), newFolder, kids, i + 1)
         ELSE deepCopyChildren(a, newFolder, kids, i + 1)

-----------------------------------------------------------------------------
(* The XML codec: QDom documents and files *)

\* a QDomNode: an element with its tag, attributes (name, value pairs in document
\* order) and child nodes; tag "" is a node that is no element (toElement() is null)
Element(tag, attrs, childNodes) ==
    [ tag |-> tag, attrs |-> attrs, childNodes |-> childNodes ]

NullElement == Element("", << >>, << >>)

hasAttribute(e, name) == \E i \in 1 .. Len(e.attrs) : e.attrs[i][1] = name

attribute(e, name) ==
    IF hasAttribute(e, name)
    THEN e.attrs[CHOOSE i \in 1 .. Len(e.attrs) : e.attrs[i][1] = name][2]
    ELSE EmptyStr

DefaultFile == "bookmarks.xml"
ExportFile == "export.xml"
FileNames == { DefaultFile, ExportFile }

\* BtBookmarksModelPrivate::defaultBookmarksFile for an empty file name
resolveFile(fileName) == IF fileName = "" THEN DefaultFile ELSE fileName

\* file contents: no file, a file without text, text that is no XML, an XML document
NoFile == [ kind |-> "absent", root |-> NullElement ]
EmptyFile == [ kind |-> "empty", root |-> NullElement ]
GarbageFile == [ kind |-> "garbage", root |-> NullElement ]
XmlFile(root) == [ kind |-> "xml", root |-> root ]

\* BtBookmarksModelPrivate::handleXmlElement: the heap after it and the new item (or NULL)
RECURSIVE handleXmlElement(_, _, _)
RECURSIVE handleXmlChildren(_, _, _, _)
handleXmlElement(a, element, parent) ==
    IF element.tag = "Folder"
    THEN LET newFolder == NewId(a)
             a1 == BookmarkItemBase_new(a, newFolder, FolderRec(EmptyStr, parent))
             a2 == IF hasAttribute(element, "caption")
                   THEN [a1 EXCEPT ![newFolder].m_text = attribute(element, "caption")]
                   ELSE a1
         IN  [ a |-> handleXmlChildren(a2, element.childNodes, 1, newFolder),
               p |-> newFolder ]
    ELSE IF element.tag = "Bookmark"
    THEN LET nb == NewId(a)
             a1 == BookmarkItemBase_new(a, nb, BookmarkRec(parent))
             a2 == IF hasAttribute(element, "modulename")
                   THEN [a1 EXCEPT ![nb].m_moduleName = attribute(element, "modulename")]
                   ELSE a1
             a3 == IF hasAttribute(element, "key")
                   THEN [a2 EXCEPT ![nb].m_key = attribute(element, "key")]
                   ELSE a2
             a4 == IF hasAttribute(element, "description")
                   THEN [a3 EXCEPT ![nb].m_description = attribute(element, "description")]
                   ELSE a3
             a5 == IF hasAttribute(element, "title")
                   THEN [a4 EXCEPT ![nb].m_text = attribute(element, "title")]
                   ELSE a4
         IN  [ a |-> a5, p |-> nb ]
    ELSE [ a |-> a, p |-> NULL ]

handleXmlChildren(a, childList, i, newFolder) ==
    IF i > Len(childList) THEN a
    ELSE handleXmlChildren(handleXmlElement(a, childList[i], newFolder).a,
                           childList, i + 1, newFolder)

\* the while loop of loadTree over the children of the document element
RECURSIVE loadTreeLoop(_, _, _, _)
loadTreeLoop(a, nodes, i, itemList) ==
    IF i > Len(nodes) \/ nodes[i].tag = "" THEN [ a |-> a, list |-> itemList ]
    ELSE LET r == handleXmlElement(a, nodes[i], NULL)
         IN  loadTreeLoop(r.a, nodes, i + 1, Append(itemList, r.p))

\* a loadTree that does not look at the tag of the document element
loadTree_anyRoot(a, fileName) ==
    LET file == files[resolveFile(fileName)]
    IN  IF file.kind # "xml" THEN [ a |-> a, list |-> << >> ]
        ELSE loadTreeLoop(a, file.root.childNodes, 1, << >>)

\* BtBookmarksModelPrivate::loadXmlFromFile and loadTree
loadTree(a, fileName) ==
    LET file == files[resolveFile(fileName)]
        document == IF file.kind = "xml" THEN file.root ELSE NullElement
    IN  IF file.kind = "absent" THEN [ a |-> a, list |-> << >> ]
        ELSE IF document.tag # "SwordBookmarks" THEN [ a |-> a, list |-> << >> ]
        ELSE loadTreeLoop(a, document.childNodes, 1, << >>)

\* BtBookmarksModelPrivate::saveItem: the elements appended to the parent element
RECURSIVE saveItem(_, _)
RECURSIVE saveItems(_, _, _)
saveItem(a, p) ==
    IF isFolderItem(a, p)
    THEN << Element("Folder", << <<"caption", a[p].m_text>> >>,
                    saveItems(a, a[p].m_children, 1)) >>
    ELSE IF isBookmarkItem(a, p)
    THEN << Element("Bookmark",
                    << <<"key", a[p].m_key>>,
                       <<"description", a[p].m_description>>,
                       <<"modulename", a[p].m_moduleName>>,
                       <<"moduledescription",
                         IF findModuleByName(a[p].m_moduleName)
                         THEN moduleDescription(a[p].m_moduleName)
                         ELSE EmptyStr>> >>
                    \o (IF ~isEmpty(a[p].m_text)
                        THEN << <<"title", a[p].m_text>> >> ELSE << >>),
                    << >>) >>
    ELSE << >>

saveItems(a, kids, i) ==
    IF i > Len(kids) THEN << >>
    ELSE saveItem(a, kids[i]) \o saveItems(a, kids, i + 1)

\* BtBookmarksModelPrivate::serializeTreeFromRootItem
serializeTreeFromRootItem(a, rootItem) ==
    Element("SwordBookmarks",
            << <<"syntaxVersion", <<48 + CURRENT_SYNTAX_VERSION>> >> >>,
            saveItems(a, a[rootItem].m_children, 1))

-----------------------------------------------------------------------------
(* BtBookmarksModel: queries *)

Live(s) == storeState[s] = "live"

\* BtBookmarksModelPrivate::item
item(s, index) == IF index = NULL THEN m_rootItem[s] ELSE index

\* the items of a store's tree, and the model indexes a caller can hold for it
TreeOf(s) == IF m_rootItem[s] = NULL THEN {} ELSE Subtree(items, m_rootItem[s])
Indexes(s) == IF m_rootItem[s] = NULL THEN {} ELSE (TreeOf(s) \ {m_rootItem[s]}) \cup {NULL}

rowCount(s, parent) == childCount(items, item(s, parent))

\* BtBookmarksModel::index
index(a, s, row, parent) ==
    LET i == item(s, parent) IN
    IF childCount(a, i) > row /\ row >= 0 THEN child(a, i, row) ELSE NULL

\* a parent() that hands out the parent item whatever it is
parentIndex_direct(s, idx) == items[item(s, idx)].m_parent

\* BtBookmarksModel::parent
parentIndex(s, idx) ==
    LET i == item(s, idx) IN
    IF items[i].m_parent = NULL \/ items[items[i].m_parent].m_parent = NULL
    THEN NULL
    ELSE items[i].m_parent

\* BtBookmarksModel::hasDescendant
modelHasDescendant(s, baseIndex, testIndex) ==
    IF isFolderItem(items, item(s, baseIndex))
    THEN hasDescendant(items, item(s, baseIndex), item(s, testIndex))
    ELSE FALSE

-----------------------------------------------------------------------------
(* BtBookmarksModel: operations.  Each yields the heap after the call, the   *)
(* value returned, the number of d->needSave() calls made, and whether the   *)
(* call aborted the process.                                                 *)

Res(a, ret, needSaveCalls) ==
    [ items |-> a, ret |-> ret, needSave |-> needSaveCalls, crash |-> FALSE ]

Crash == [ items |-> << >>, ret |-> "abort", needSave |-> 0, crash |-> TRUE ]

\* BookmarkItemBase::index(): asserts that the item has a parent, then looks the
\* item up among the children of the parent
itemIndex(a, p) ==
    IF ~(a[p].m_parent # NULL) THEN Crash
    ELSE Res(a, indexOf(a, p), 0)


RECURSIVE removeLoop(_, _, _, _)
removeLoop(a, p, row, count) ==
    IF count = 0 THEN a ELSE removeLoop(removeChild(a, p, row), p, row, count - 1)

\* BtBookmarksModel::removeRows
removeRows(s, row, count, parent) ==
    IF ~(rowCount(s, parent) >= row + count) THEN Crash
    ELSE Res(removeLoop(items, item(s, parent), row, count), TRUE, 1)

RECURSIVE insertLoop(_, _, _, _)
insertLoop(a, p, row, count) ==
    IF count = 0 THEN a
    ELSE LET c == NewId(a)
         IN  insertLoop(insertChild(a @@ (c :> BaseRec), p, row, c), p, row, count - 1)

\* BtBookmarksModel::insertRows
insertRows(s, row, count, parent) ==
    IF ~(rowCount(s, parent) >= row + count - 1) THEN Crash
    ELSE Res(insertLoop(items, item(s, parent), row, count), TRUE, 0)

\* a setData that calls needSave for every item
setData_alwaysDirty(s, idx, val, role) ==
    LET i == item(s, idx) IN
    IF role \in {"display", "edit"}
    THEN Res([items EXCEPT ![i].m_text = val], TRUE, 1)
    ELSE IF role = "tooltip"
    THEN Res([items EXCEPT ![i].m_tooltip = val], TRUE, 1)
    ELSE Res(items, FALSE, 0)

\* BtBookmarksModel::setData; roles "display", "edit", "tooltip", or another
setData(s, idx, val, role) ==
    LET i == item(s, idx)
        typed == isFolderItem(items, i) \/ isBookmarkItem(items, i)
    IN  IF role \in {"display", "edit"}
        THEN Res([items EXCEPT ![i].m_text = val], TRUE, IF typed THEN 1 ELSE 0)
        ELSE IF role = "tooltip"
        THEN Res([items EXCEPT ![i].m_tooltip = val], TRUE, IF typed THEN 1 ELSE 0)
        ELSE Res(items, FALSE, 0)

\* BtBookmarksModel::setDescription
setDescription(s, idx, description) ==
    IF isBookmarkItem(items, item(s, idx))
    THEN Res([items EXCEPT ![item(s, idx)].m_description = description], "void", 1)
    ELSE Res(items, "void", 0)

\* an addBookmark that does not look at the type of the parent
addBookmark_anyParent(s, row, parent, moduleName, k, description, title) ==
    LET i == item(s, parent)
        r == IF row < 0 THEN row + rowCount(s, parent) + 1 ELSE row
        c == NewId(items)
        a1 == items @@ (c :> BookmarkNewRec(moduleName, k, description, title))
    IN  Res(insertChild(a1, i, r, c), c, 1)

\* BtBookmarksModel::addBookmark
addBookmark(s, row, parent, moduleName, k, description, title) ==
    IF isFolderItem(items, item(s, parent))
    THEN LET i == item(s, parent)
             r == IF row < 0 THEN row + rowCount(s, parent) + 1 ELSE row
             c == NewId(items)
             a1 == items @@ (c :> BookmarkNewRec(moduleName, k, description, title))
         IN  Res(insertChild(a1, i, r, c), c, 1)
    ELSE Res(items, NULL, 0)

\* an addFolder that takes the name as it is given
addFolder_givenName(s, row, parent, name) ==
    IF isFolderItem(items, item(s, parent))
    THEN LET i == item(s, parent)
             c == NewId(items)
             a1 == items @@ (c :> FolderRec(name, NULL))
         IN  Res(insertChild(a1, i, row, c), c, 1)
    ELSE Res(items, NULL, 0)

\* BtBookmarksModel::addFolder
addFolder(s, row, parent, name) ==
    IF isFolderItem(items, item(s, parent))
    THEN LET i == item(s, parent)
             c == NewId(items)
             a1 == items @@ (c :> FolderRec(IF isEmpty(name) THEN Str_NewFolder ELSE name,
                                            NULL))
         IN  Res(insertChild(a1, i, row, c), c, 1)
    ELSE Res(items, NULL, 0)

\* the loop of copyItems over toCopy; a break leaves the loop with the state reached
RECURSIVE copyLoop(_, _, _, _, _)
copyLoop(s, parent, toCopy, i, st) ==
    IF i > Len(toCopy) THEN st
    ELSE LET p == item(s, toCopy[i]) IN
         IF isFolderItem(st.a, p)
         THEN LET st1 == [st EXCEPT !.bookmarksOnly = FALSE] IN
              IF Len(toCopy) > 1
              THEN [st1 EXCEPT !.moreThanOneFolder = TRUE]
              ELSE IF hasDescendant(st.a, p, item(s, parent))
              THEN [st1 EXCEPT !.targetIncluded = TRUE]
              ELSE copyLoop(s, parent, toCopy, i + 1, st1)
         ELSE IF isBookmarkItem(st.a, p)
         THEN LET c == NewId(st.a)
                  a1 == st.a @@ (c :> BookmarkCopyRec(st.a, p))
              IN  copyLoop(s, parent, toCopy, i + 1,
                           [st EXCEPT !.a = a1, !.newList = Append(@, c)])
         ELSE [st EXCEPT !.nullDeref = TRUE]

\* copyItems up to its test for rejection: the loop, the deep copy of a solitary
\* folder and the count check
copyState(s, parent, toCopy) ==
    LET st0 == [ a |-> items, newList |-> << >>, bookmarksOnly |-> TRUE,
                 targetIncluded |-> FALSE, moreThanOneFolder |-> FALSE,
                 nullDeref |-> FALSE ]
        st1 == copyLoop(s, parent, toCopy, 1, st0)
        st2 == IF ~st1.nullDeref /\ ~st1.bookmarksOnly /\ Len(toCopy) = 1
               THEN LET r == deepCopy(st1.a, item(s, toCopy[1]))
                    IN  [st1 EXCEPT !.a = r.a, !.newList = Append(@, r.p)]
               ELSE st1
    IN  IF ~st2.bookmarksOnly /\ Len(toCopy) > 1
        THEN [st2 EXCEPT !.moreThanOneFolder = TRUE]
        ELSE st2

\* a test that lets a folder pass among other items
copyRejected_targetOnly(st) == st.targetIncluded

\* the test of copyItems that returns the empty list
copyRejected(st) == st.moreThanOneFolder \/ st.targetIncluded

\* BtBookmarksModel::copyItems.  Copies made for a rejected call are never
\* attached nor freed; they are left out of the heap.
copyItems(s, row, parent, toCopy) ==
    LET st == copyState(s, parent, toCopy) IN
    IF st.nullDeref THEN Crash
    ELSE IF copyRejected(st) THEN Res(items, << >>, 0)
    ELSE LET a1 == insertChildren(st.a, item(s, parent), row, st.newList)
         IN  Res(a1,
                 [ i \in 1 .. Len(st.newList) |-> index(a1, s, row + i - 1, parent) ],
                 1)

\* the comparators BtBookmarksModelSortAscending / BtBookmarksModelSortDescending
sortLess(a, order, i1, i2) ==
    IF order = "ascending"
    THEN compare(a[i1].m_text, a[i2].m_text) < 0
    ELSE compare(a[i1].m_text, a[i2].m_text) > 0

\* the outcomes of std::sort: the orders of the children in which no item is
\* followed by one that the comparator puts before it
sortOutcomes(a, kids, order) ==
    { q \in [ 1 .. Len(kids) -> Range(kids) ] :
        /\ \A i, j \in 1 .. Len(kids) : i # j => q[i] # q[j]
        /\ \A i, j \in 1 .. Len(kids) : i < j => ~sortLess(a, order, q[j], q[i]) }

\* a walk that collects the root alone
sortWalk_rootOnly(a, list, i, parents) == <<list[1]>>

\* the breadth-first walk of sortItems from the root: the folders it collects
RECURSIVE sortWalk(_, _, _, _)
sortWalk(a, list, i, parents) ==
    IF i > Len(list) THEN parents
    ELSE sortWalk(a, list \o a[list[i]].m_children, i + 1,
                  IF isFolderItem(a, list[i]) THEN Append(parents, list[i]) ELSE parents)

\* the loop of sortItems over the folders to sort: the heaps it can end with
RECURSIVE sortLoop(_, _, _, _)
sortLoop(a, parents, i, order) ==
    IF i > Len(parents) THEN {a}
    ELSE UNION { sortLoop([a EXCEPT ![parents[i]].m_children = q], parents, i + 1, order) :
                 q \in sortOutcomes(a, a[parents[i]].m_children, order) }

\* a sortItems that walks the tree below any folder it is given
sortItems_wholeTree(s, parent, order) ==
    LET f == item(s, parent) IN
    IF isFolderItem(items, f)
    THEN LET parents == sortWalk(items, <<f>>, 1, << >>)
         IN  { Res(a, "void", Len(parents)) : a \in sortLoop(items, parents, 1, order) }
    ELSE { Res(items, "void", 0) }

\* BtBookmarksModel::sortItems: the set of results it can have
sortItems(s, parent, order) ==
    LET f == item(s, parent) IN
    IF isFolderItem(items, f)
    THEN LET parents == IF f = m_rootItem[s]
                        THEN sortWalk(items, <<f>>, 1, << >>)
                        ELSE <<f>>
         IN  { Res(a, "void", Len(parents)) : a \in sortLoop(items, parents, 1, order) }
    ELSE { Res(items, "void", 0) }

\* BtBookmarksModel::load on the item i: the heap after it, the value returned and
\* whether insertChild dereferenced a null item of the loaded list
load(a, i, fileName) ==
    LET lt == loadTree(a, fileName) IN
    IF Len(lt.list) = 0 THEN Res(a, FALSE, 0)
    ELSE IF NULL \in Range(lt.list) THEN Crash
    ELSE Res(insertChildren(lt.a, i, childCount(lt.a, i), lt.list), TRUE, 0)

-----------------------------------------------------------------------------
(* The save timer *)

TimerOff == [ active |-> FALSE, remaining |-> 0 ]

\* QTimer::start on the single-shot timer of 30 * 1000 ms
TimerStarted == [ active |-> TRUE, remaining |-> SaveIntervalSeconds ]

\* a needSave that starts no timer
needSave_never(tm, s) == tm

\* a needSave that restarts a running timer
needSave_restart(tm, s) ==
    IF m_defaultModel = s THEN [tm EXCEPT ![s] = TimerStarted] ELSE tm

\* BtBookmarksModelPrivate::needSave: the timers after it
needSave(tm, s) ==
    IF m_defaultModel = s
    THEN IF ~tm[s].active THEN [tm EXCEPT ![s] = TimerStarted] ELSE tm
    ELSE tm

RECURSIVE needSaveCalls(_, _, _)
needSaveCalls(tm, s, n) ==
    IF n = 0 THEN tm ELSE needSaveCalls(needSave(tm, s), s, n - 1)

\* a save that leaves the timer alone
saveStopsTimer_never(tm, s) == tm

\* the timers after the part of save() that follows the write
saveStopsTimer(tm, s) ==
    IF tm[s].active THEN [tm EXCEPT ![s] = TimerOff] ELSE tm

\* the file system after save() wrote the tree below rootItem to fileName
saveWrites(fs, a, rootItem, fileName) ==
    [fs EXCEPT ![resolveFile(fileName)] = XmlFile(serializeTreeFromRootItem(a, rootItem))]

-----------------------------------------------------------------------------
(* Actions *)

\* the process is gone: its heap, stores and timers with it; the files stay
Abort ==
    /\ crashed' = TRUE
    /\ items' = << >>
    /\ m_rootItem' = [ t \in Stores |-> NULL ]
    /\ storeState' = [ t \in Stores |-> "none" ]
    /\ m_defaultModel' = NULL
    /\ m_saveTimer' = [ t \in Stores |-> TimerOff ]
    /\ connected' = [ t \in Stores |-> 0 ]
    /\ sinceDirty' = [ t \in Stores |-> -1 ]
    /\ lastSaved' = [ t \in Stores |-> NullElement ]
    /\ UNCHANGED files

\* the first needSave on the default store since the last save opens a window
noteDirty(sd, s, n) ==
    IF n > 0 /\ m_defaultModel = s /\ sd[s] = -1 THEN [sd EXCEPT ![s] = 0] ELSE sd

\* a call that changes the tree and may call needSave
Apply(s, r) ==
    IF r.crash THEN Abort
    ELSE /\ Fits(r.items)
         /\ items' = r.items
         /\ m_saveTimer' = needSaveCalls(m_saveTimer, s, r.needSave)
         /\ sinceDirty' = noteDirty(sinceDirty, s, r.needSave)
         /\ UNCHANGED <<m_rootItem, storeState, m_defaultModel, connected, files,
                        lastSaved, crashed>>

Running(s) == ~crashed /\ Live(s)

InsertRows(s, row, count, parent) ==
    /\ Running(s)
    /\ parent \in Indexes(s)
    /\ row \in 0 .. rowCount(s, parent)
    /\ Apply(s, insertRows(s, row, count, parent))

RemoveRows(s, row, count, parent) ==
    /\ Running(s)
    /\ parent \in Indexes(s)
    /\ row \in 0 .. rowCount(s, parent)
    /\ Apply(s, removeRows(s, row, count, parent))

SetData(s, idx, val, role) ==
    /\ Running(s)
    /\ idx \in Indexes(s)
    /\ Apply(s, setData(s, idx, val, role))

SetDescription(s, idx, description) ==
    /\ Running(s)
    /\ idx \in Indexes(s)
    /\ Apply(s, setDescription(s, idx, description))

AddBookmark(s, row, parent, moduleName, k, description, title) ==
    /\ Running(s)
    /\ parent \in Indexes(s)
    /\ row \in -1 .. rowCount(s, parent)
    /\ Apply(s, addBookmark(s, row, parent, moduleName, k, description, title))

AddFolder(s, row, parent, name) ==
    /\ Running(s)
    /\ parent \in Indexes(s)
    /\ row \in 0 .. rowCount(s, parent)
    /\ Apply(s, addFolder(s, row, parent, name))

CopyItems(s, row, parent, toCopy) ==
    /\ Running(s)
    /\ parent \in Indexes(s)
    /\ row \in 0 .. rowCount(s, parent)
    /\ Range(toCopy) \subseteq Indexes(s)
    /\ Apply(s, copyItems(s, row, parent, toCopy))

SortItems(s, parent, order) ==
    /\ Running(s)
    /\ parent \in Indexes(s)
    /\ \E r \in sortItems(s, parent, order) : Apply(s, r)

\* a load that registers the store without looking at m_defaultModel
Load_noAssert(s, fileName, rootItem) ==
    /\ Running(s)
    /\ rootItem \in Indexes(s)
    /\ LET r == load(items, item(s, rootItem), fileName)
           registers == rootItem = NULL /\ fileName = ""
       IN  IF r.crash
           THEN Abort
           ELSE /\ Fits(r.items)
                /\ items' = r.items
                /\ m_defaultModel' = IF registers THEN s ELSE m_defaultModel
                /\ connected' = IF registers
                                THEN [connected EXCEPT ![s] = @ + 1]
                                ELSE connected
                /\ UNCHANGED <<m_rootItem, storeState, m_saveTimer, files,
                               sinceDirty, lastSaved, crashed>>

\* BtBookmarksModel::load
Load(s, fileName, rootItem) ==
    /\ Running(s)
    /\ rootItem \in Indexes(s)
    /\ LET r == load(items, item(s, rootItem), fileName)
           registers == rootItem = NULL /\ fileName = ""
       IN  IF (registers /\ m_defaultModel # NULL) \/ r.crash
           THEN Abort
           ELSE /\ Fits(r.items)
                /\ items' = r.items
                /\ m_defaultModel' = IF registers THEN s ELSE m_defaultModel
                /\ connected' = IF registers
                                THEN [connected EXCEPT ![s] = @ + 1]
                                ELSE connected
                /\ UNCHANGED <<m_rootItem, storeState, m_saveTimer, files,
                               sinceDirty, lastSaved, crashed>>

\* BtBookmarksModel::save: the files, the timers and the heap after it, and the
\* value returned
save(s, fileName, rootItem) ==
    [ files  |-> saveWrites(files, items, item(s, rootItem), fileName),
      timers |-> saveStopsTimer(m_saveTimer, s),
      items  |-> items,
      ret    |-> TRUE ]

\* BtBookmarksModel::save
Save(s, fileName, rootItem) ==
    /\ Running(s)
    /\ rootItem \in Indexes(s)
    /\ files' = save(s, fileName, rootItem).files
    /\ m_saveTimer' = save(s, fileName, rootItem).timers
    /\ sinceDirty' = [sinceDirty EXCEPT ![s] = -1]
    /\ lastSaved' = IF fileName = "" /\ rootItem = NULL
                    THEN [lastSaved EXCEPT ![s] = serializeTreeFromRootItem(items, m_rootItem[s])]
                    ELSE lastSaved
    /\ UNCHANGED <<items, m_rootItem, storeState, m_defaultModel, connected, crashed>>

\* the event loop delivers the timeout of the single-shot timer: every connected
\* slotSave runs save() with its defaults
Timeout(s) ==
    /\ Running(s)
    /\ m_saveTimer[s].active
    /\ m_saveTimer[s].remaining = 0
    /\ m_saveTimer' = [m_saveTimer EXCEPT ![s] = TimerOff]
    /\ files' = IF connected[s] > 0 THEN saveWrites(files, items, m_rootItem[s], "")
                ELSE files
    /\ sinceDirty' = [sinceDirty EXCEPT ![s] = -1]
    /\ lastSaved' = IF connected[s] > 0
                    THEN [lastSaved EXCEPT ![s] = serializeTreeFromRootItem(items, m_rootItem[s])]
                    ELSE lastSaved
    /\ UNCHANGED <<items, m_rootItem, storeState, m_defaultModel, connected, crashed>>

\* dt seconds pass without a timer coming due before their end
Tick(dt) ==
    /\ ~crashed
    /\ dt > 0
    /\ \E s \in Stores : m_saveTimer[s].active
    /\ \A s \in Stores : m_saveTimer[s].active => m_saveTimer[s].remaining >= dt
    /\ m_saveTimer' = [ s \in Stores |->
                          IF m_saveTimer[s].active
                          THEN [m_saveTimer[s] EXCEPT !.remaining = @ - dt]
                          ELSE m_saveTimer[s] ]
    /\ sinceDirty' = [ s \in Stores |->
                          IF sinceDirty[s] >= 0 THEN sinceDirty[s] + dt ELSE sinceDirty[s] ]
    /\ UNCHANGED <<items, m_rootItem, storeState, m_defaultModel, connected, files,
                   lastSaved, crashed>>

\* a destructor that does not look at the timer
Destroy_noSave(s) ==
    /\ Running(s)
    /\ items' = [ q \in DOMAIN items \ TreeOf(s) |-> items[q] ]
    /\ m_rootItem' = [m_rootItem EXCEPT ![s] = NULL]
    /\ storeState' = [storeState EXCEPT ![s] = "destroyed"]
    /\ m_saveTimer' = [m_saveTimer EXCEPT ![s] = TimerOff]
    /\ connected' = [connected EXCEPT ![s] = 0]
    /\ sinceDirty' = [sinceDirty EXCEPT ![s] = -1]
    /\ lastSaved' = [lastSaved EXCEPT ![s] = NullElement]
    /\ UNCHANGED <<m_defaultModel, files, crashed>>

\* BtBookmarksModel::~BtBookmarksModel
Destroy(s) ==
    /\ Running(s)
    /\ files' = IF m_saveTimer[s].active
                THEN saveWrites(files, items, m_rootItem[s], "")
                ELSE files
    /\ items' = [ q \in DOMAIN items \ TreeOf(s) |-> items[q] ]
    /\ m_rootItem' = [m_rootItem EXCEPT ![s] = NULL]
    /\ storeState' = [storeState EXCEPT ![s] = "destroyed"]
    /\ m_saveTimer' = [m_saveTimer EXCEPT ![s] = TimerOff]
    /\ connected' = [connected EXCEPT ![s] = 0]
    /\ sinceDirty' = [sinceDirty EXCEPT ![s] = -1]
    /\ lastSaved' = [lastSaved EXCEPT ![s] = NullElement]
    /\ UNCHANGED <<m_defaultModel, crashed>>

\* a constructor that registers the default only when its load() found items
Construct_registerOnSuccess(s, fileName) ==
    /\ ~crashed
    /\ ~Live(s)
    /\ LET root == NewId(items)
           a0 == items @@ (root :> FolderRec(Str_Root, NULL))
           r == load(a0, root, fileName)
           registers == fileName = "" /\ r.ret = TRUE
       IN  IF (registers /\ m_defaultModel # NULL) \/ r.crash
           THEN Abort
           ELSE /\ Fits(r.items)
                /\ items' = r.items
                /\ m_rootItem' = [m_rootItem EXCEPT ![s] = root]
                /\ storeState' = [storeState EXCEPT ![s] = "live"]
                /\ m_defaultModel' = IF registers THEN s ELSE m_defaultModel
                /\ m_saveTimer' = [m_saveTimer EXCEPT ![s] = TimerOff]
                /\ connected' = [connected EXCEPT ![s] = IF registers THEN 1 ELSE 0]
                /\ sinceDirty' = [sinceDirty EXCEPT ![s] = -1]
                /\ lastSaved' = [lastSaved EXCEPT ![s] =
                                    IF registers
                                    THEN serializeTreeFromRootItem(r.items, root)
                                    ELSE NullElement]
                /\ UNCHANGED <<files, crashed>>


\* BtBookmarksModel::BtBookmarksModel(parent) for fileName "", and
\* BtBookmarksModel::BtBookmarksModel(fileName, parent) otherwise.  A store is
\* named by the address of its object: the allocator may hand out the address of
\* a destroyed store again, or a fresh one.
Construct(s, fileName) ==
    /\ ~crashed
    /\ ~Live(s)
    /\ LET root == NewId(items)
           a0 == items @@ (root :> FolderRec(Str_Root, NULL))
           r == load(a0, root, fileName)
           registers == fileName = ""
       IN  IF (registers /\ m_defaultModel # NULL) \/ r.crash
           THEN Abort
           ELSE /\ Fits(r.items)
                /\ items' = r.items
                /\ m_rootItem' = [m_rootItem EXCEPT ![s] = root]
                /\ storeState' = [storeState EXCEPT ![s] = "live"]
                /\ m_defaultModel' = IF registers THEN s ELSE m_defaultModel
                /\ m_saveTimer' = [m_saveTimer EXCEPT ![s] = TimerOff]
                /\ connected' = [connected EXCEPT ![s] = IF registers THEN 1 ELSE 0]
                /\ sinceDirty' = [sinceDirty EXCEPT ![s] = -1]
                /\ lastSaved' = [lastSaved EXCEPT ![s] =
                                    IF registers
                                    THEN serializeTreeFromRootItem(r.items, root)
                                    ELSE NullElement]
                /\ UNCHANGED <<files, crashed>>

-----------------------------------------------------------------------------
(* BtQmlInterface (src/frontend/display/modelview/btqmlinterface.cpp): the   *)
(* throttling of highlight requests.  A std::optional is a sequence of at    *)
(* most one value.  A timer started with startTimer fires again and again    *)
(* until killTimer; the model keeps the ids of the running timers, not time. *)

\* number of setHighlightWords calls in a run of the model
MaxRequests == 3

\* std::nullopt
NoValue == << >>

\* the struct ThrottledHighlightWords; two are equal when both members are
ThrottledHighlightWords(words, caseSensitive) ==
    [ words |-> words, caseSensitive |-> caseSensitive ]

\* the struct FindState
FindState(i, subIndex) == [ index |-> i, subIndex |-> subIndex ]

\* the positions a text search can end at: they depend on the text of the
\* module, which is not part of this model
FindStates == { FindState(i, subIndex) : i \in 0 .. 1, subIndex \in 0 .. 1 }

\* the object after its constructor: no request, no timer, no search
InterfaceInit ==
    /\ m_throttledHighlightWords = NoValue
    /\ m_lastAppliedHighlightWords = NoValue
    /\ m_highlightWordsTimerId = 0
    /\ m_linkTimerId = 0
    /\ m_timeoutUrl = ""
    /\ m_findState = NoValue
    /\ m_moduleTextModel = [ highlightWords |-> NoValue, findState |-> NoValue,
                             setHighlightWordsCalls |-> 0 ]
    /\ highlightRequests = 0

\* QObject::startTimer: an id that is not 0 and not the id of a running timer
startTimer(running) ==
    CHOOSE id \in 1 .. Cardinality(running) + 1 :
        /\ id \notin running
        /\ \A j \in 1 .. id - 1 : j \in running

\* BtQmlInterface::setHighlightWords
SetHighlightWords(words, caseSensitive) ==
    /\ highlightRequests < MaxRequests
    /\ m_throttledHighlightWords' = <<ThrottledHighlightWords(words, caseSensitive)>>
    /\ m_highlightWordsTimerId' =
          IF m_highlightWordsTimerId = 0
          THEN startTimer({m_linkTimerId} \ {0})
          ELSE m_highlightWordsTimerId
    /\ highlightRequests' = highlightRequests + 1
    /\ UNCHANGED <<m_lastAppliedHighlightWords, m_linkTimerId, m_timeoutUrl,
                   m_findState, m_moduleTextModel>>

\* BtQmlInterface::cancelMagTimer and setMagReferenceByUrl
SetMagReferenceByUrl(url) ==
    /\ IF url = ""
       THEN UNCHANGED <<m_timeoutUrl, m_linkTimerId>>
       ELSE /\ m_timeoutUrl' = url
            /\ m_linkTimerId' = startTimer({m_highlightWordsTimerId} \ {0})
    /\ UNCHANGED <<m_throttledHighlightWords, m_lastAppliedHighlightWords,
                   m_highlightWordsTimerId, m_findState, m_moduleTextModel,
                   highlightRequests>>

\* BtQmlInterface::findText
FindText(backward) ==
    /\ \E found \in FindStates :
          /\ m_findState' = <<found>>
          /\ m_moduleTextModel' = [m_moduleTextModel EXCEPT !.findState = <<found>>]
    /\ UNCHANGED <<m_throttledHighlightWords, m_lastAppliedHighlightWords,
                   m_highlightWordsTimerId, m_linkTimerId, m_timeoutUrl,
                   highlightRequests>>

\* a highlight branch that hands every waiting request to the text model
highlightTimeout_applyAlways ==
    IF m_throttledHighlightWords # NoValue
    THEN /\ m_moduleTextModel' =
               [ highlightWords |-> m_throttledHighlightWords,
                 findState |-> NoValue,
                 setHighlightWordsCalls |-> m_moduleTextModel.setHighlightWordsCalls + 1 ]
         /\ m_findState' = NoValue
         /\ m_lastAppliedHighlightWords' = m_throttledHighlightWords
         /\ m_throttledHighlightWords' = NoValue
         /\ UNCHANGED m_highlightWordsTimerId
    ELSE /\ m_highlightWordsTimerId' = 0
         /\ UNCHANGED <<m_throttledHighlightWords, m_lastAppliedHighlightWords,
                        m_findState, m_moduleTextModel>>

\* the branch of timerEvent for the highlight timer
highlightTimeout ==
    IF m_throttledHighlightWords # NoValue
    THEN IF m_throttledHighlightWords = m_lastAppliedHighlightWords
         THEN /\ m_throttledHighlightWords' = NoValue
              /\ UNCHANGED <<m_lastAppliedHighlightWords, m_highlightWordsTimerId,
                             m_findState, m_moduleTextModel>>
         ELSE /\ m_moduleTextModel' =
                    [ highlightWords |-> m_throttledHighlightWords,
                      findState |-> NoValue,
                      setHighlightWordsCalls |-> m_moduleTextModel.setHighlightWordsCalls + 1 ]
              /\ m_findState' = NoValue
              /\ m_lastAppliedHighlightWords' = m_throttledHighlightWords
              /\ m_throttledHighlightWords' = NoValue
              /\ UNCHANGED m_highlightWordsTimerId
    ELSE /\ m_highlightWordsTimerId' = 0
         /\ UNCHANGED <<m_throttledHighlightWords, m_lastAppliedHighlightWords,
                        m_findState, m_moduleTextModel>>

\* BtQmlInterface::timerEvent for the event of a running timer
TimerEvent(timerId) ==
    /\ timerId # 0
    /\ timerId \in { m_linkTimerId, m_highlightWordsTimerId }
    /\ IF timerId = m_linkTimerId
       THEN /\ m_linkTimerId' = 0
            /\ UNCHANGED <<m_throttledHighlightWords, m_lastAppliedHighlightWords,
                           m_highlightWordsTimerId, m_findState, m_moduleTextModel>>
       ELSE /\ highlightTimeout
            /\ UNCHANGED m_linkTimerId
    /\ UNCHANGED <<m_timeoutUrl, highlightRequests>>

-----------------------------------------------------------------------------
(* Documents found on disk *)

BookmarkElement(attrs) == Element("Bookmark", attrs, << >>)

\* <SwordBookmarks syntaxVersion="1"><Folder caption="a">
\*   <Bookmark key="k" modulename="G" title="b"/></Folder></SwordBookmarks>
DocFavorites ==
    Element("SwordBookmarks", << <<"syntaxVersion", <<49>> >> >>,
            << Element("Folder", << <<"caption", Str_a>> >>,
                       << BookmarkElement(<< <<"key", Str_k>>,
                                             <<"modulename", Str_GenBook>>,
                                             <<"title", Str_b>> >>) >>) >>)

\* <SwordBookmarks syntaxVersion="1"><Bookmark key="k" description="d" modulename="G"/>
\* </SwordBookmarks>
DocBookmark ==
    Element("SwordBookmarks", << <<"syntaxVersion", <<49>> >> >>,
            << BookmarkElement(<< <<"key", Str_k>>,
                                  <<"description", Str_d>>,
                                  <<"modulename", Str_GenBook>> >>) >>)

-----------------------------------------------------------------------------
(* The tree operations on the default store *)

\* the process after `new BtBookmarksModel(parent)` found no default bookmarks file
InitDefaultStore(exportFile) ==
    /\ items = (1 :> FolderRec(Str_Root, NULL))
    /\ m_rootItem = [ s \in Stores |-> IF s = 1 THEN 1 ELSE NULL ]
    /\ storeState = [ s \in Stores |-> IF s = 1 THEN "live" ELSE "none" ]
    /\ m_defaultModel = 1
    /\ m_saveTimer = [ s \in Stores |-> TimerOff ]
    /\ connected = [ s \in Stores |-> IF s = 1 THEN 1 ELSE 0 ]
    /\ files = [ f \in FileNames |-> IF f = ExportFile THEN exportFile ELSE NoFile ]
    /\ sinceDirty = [ s \in Stores |-> -1 ]
    /\ lastSaved = [ s \in Stores |->
                       IF s = 1 THEN serializeTreeFromRootItem(items, 1) ELSE NullElement ]
    /\ last = <<"construct", 1>>
    /\ crashed = FALSE
    /\ InterfaceInit

Init == \E doc \in { DocFavorites, DocBookmark } : InitDefaultStore(XmlFile(doc))

\* the selections of at most MaxSelection indexes of a store
Selections(s) == UNION { [ 1 .. n -> Indexes(s) ] : n \in 0 .. MaxSelection }

\* the rows at which an item can be inserted below parent
Rows(s, parent) == 0 .. rowCount(s, parent)

\* a step of action A that the observer does not record, or records as name
Silent(A) == A /\ UNCHANGED <<last, interfaceVars>>
Observed(A, name) == A /\ last' = name /\ UNCHANGED interfaceVars

Next ==
    \/ \E parent \in Indexes(1), count \in 1 .. MaxCount :
          \E row \in Rows(1, parent) : Silent(InsertRows(1, row, count, parent))
    \/ \E parent \in Indexes(1), count \in 1 .. MaxCount :
          \E row \in Rows(1, parent) : Silent(RemoveRows(1, row, count, parent))
    \/ \E parent \in Indexes(1) :
          \E row \in {-1} \cup Rows(1, parent) :
             Silent(AddBookmark(1, row, parent, Str_GenBook, Str_k, Str_d, Str_b))
    \/ \E parent \in Indexes(1), name \in { EmptyStr, Str_a } :
          \E row \in Rows(1, parent) : Silent(AddFolder(1, row, parent, name))
    \/ \E parent \in Indexes(1), toCopy \in Selections(1) :
          \E row \in Rows(1, parent) : Silent(CopyItems(1, row, parent, toCopy))
    \/ \E parent \in Indexes(1), order \in { "ascending", "descending" } :
          Silent(SortItems(1, parent, order))
    \/ \E fileName \in { "", ExportFile }, rootItem \in Indexes(1) :
          Silent(Load(1, fileName, rootItem))

Spec == Init /\ [][Next]_vars

-----------------------------------------------------------------------------
(* Properties of the tree operations, stated for the default store 1 *)


FolderIndexes == { f \in Indexes(1) : isFolderItem(items, item(1, f)) }
BookmarkIndexes == { b \in Indexes(1) : isBookmarkItem(items, item(1, b)) }

\* the strict and non-strict descendants of the item an index resolves to
Below(idx) == Subtree(items, item(1, idx))

\* q (in heap b) is a copy of p (in heap a): same dynamic type, same caption for a
\* folder, same key, description and module name for a bookmark, and children
\* that are copies of p's children in the same order
RECURSIVE IsCopyOf(_, _, _, _)
IsCopyOf(a, p, b, q) ==
    /\ b[q].kind = a[p].kind
    /\ isFolderItem(a, p) => b[q].m_text = a[p].m_text
    /\ isBookmarkItem(a, p) =>
          /\ b[q].m_key = a[p].m_key
          /\ b[q].m_description = a[p].m_description
          /\ b[q].m_moduleName = a[p].m_moduleName
    /\ Len(b[q].m_children) = Len(a[p].m_children)
    /\ \A i \in 1 .. Len(a[p].m_children) :
          IsCopyOf(a, a[p].m_children[i], b, b[q].m_children[i])

\* C1: for every folder F and every node N that is neither F nor a descendant of
\* F, hasDescendant(F, N) is false.
C1_NonDescendantFalse ==
    \A f \in FolderIndexes, n \in Indexes(1) :
        item(1, n) \notin Below(f) => ~modelHasDescendant(1, f, n)

\* C2: for every folder F, hasDescendant(F, F) is true and hasDescendant(F, D) is
\* true for every strict descendant D of F at any depth.
C2_DescendantTrue ==
    \A f \in FolderIndexes, n \in Indexes(1) :
        item(1, n) \in Below(f) => modelHasDescendant(1, f, n)

\* the subtree of p holds folders and bookmarks only, the bookmarks as leaves
FoldersAndBookmarks(p) ==
    \A q \in Subtree(items, p) :
        \/ isFolderItem(items, q)
        \/ isBookmarkItem(items, q) /\ items[q].m_children = << >>

\* C3: copyItems of a solitary folder F (a subtree of folders and bookmarks) to a
\* destination outside F's subtree returns one new reference; the destination
\* gains at destRow a deep copy of F made of new nodes only, and F's subtree is
\* unchanged.
C3_FolderCopySucceeds ==
    \A f \in FolderIndexes \ {NULL}, dest \in Indexes(1) :
        (item(1, dest) \notin Below(f) /\ FoldersAndBookmarks(item(1, f))) =>
            \A row \in Rows(1, dest) :
                LET r == copyItems(1, row, dest, <<f>>) IN
                /\ ~r.crash
                /\ Len(r.ret) = 1
                /\ r.ret[1] \notin DOMAIN items
                /\ child(r.items, item(1, dest), row) = r.ret[1]
                /\ IsCopyOf(items, item(1, f), r.items, r.ret[1])
                /\ Subtree(r.items, r.ret[1]) \cap DOMAIN items = {}
                /\ \A q \in Below(f) : r.items[q] = items[q]

\* C4: copyItems of a single folder F to a destination that is F or a descendant
\* of F returns the empty list, leaves the tree as it was and does not mark the
\* store dirty.
C4_CopyIntoOwnSubtreeRejected ==
    \A f \in FolderIndexes \ {NULL}, dest \in Indexes(1) :
        item(1, dest) \in Below(f) =>
            \A row \in Rows(1, dest) :
                LET r == copyItems(1, row, dest, <<f>>) IN
                /\ ~r.crash
                /\ r.ret = << >>
                /\ r.items = items
                /\ r.needSave = 0

\* the selections of two or more folders and bookmarks that hold a folder
MixedSelections ==
    { toCopy \in Selections(1) :
        /\ Len(toCopy) >= 2
        /\ Range(toCopy) \subseteq FolderIndexes \cup BookmarkIndexes
        /\ Range(toCopy) \cap FolderIndexes # {} }

\* C5: copyItems of two or more items, one of them a folder, returns the empty
\* list, leaves the tree as it was and does not mark the store dirty.
C5_FolderMustBeSolitary ==
    \A toCopy \in MixedSelections, dest \in Indexes(1) :
        \A row \in Rows(1, dest) :
            LET r == copyItems(1, row, dest, toCopy) IN
            /\ ~r.crash
            /\ r.ret = << >>
            /\ r.items = items
            /\ r.needSave = 0
            /\ needSaveCalls(m_saveTimer, 1, r.needSave) = m_saveTimer

\* C5 witness: a bookmark selected before a folder was copied before the call
\* was rejected.
C5_Witness ==
    \E toCopy \in MixedSelections, dest \in Indexes(1) :
        /\ toCopy[1] \in BookmarkIndexes
        /\ Len(copyState(1, dest, toCopy).newList) = 1
        /\ copyItems(1, 0, dest, toCopy).ret = << >>

\* the selections of bookmarks only
BookmarkSelections ==
    { toCopy \in Selections(1) : Range(toCopy) \subseteq BookmarkIndexes }

\* s without the elements of the set gone
RECURSIVE Without(_, _)
Without(s, gone) ==
    IF s = << >> THEN << >>
    ELSE IF Head(s) \in gone THEN Without(Tail(s), gone)
    ELSE <<Head(s)>> \o Without(Tail(s), gone)

\* C6: copyItems of n bookmarks inserts n new bookmarks at destRow .. destRow+n-1
\* in selection order, each with the key, description and module name of its
\* source; the nodes that were there keep their fields and their order; n
\* references to the new nodes are returned and the store is marked dirty.
C6_BookmarksCopiedInOrder ==
    \A toCopy \in BookmarkSelections, dest \in Indexes(1) :
        \A row \in Rows(1, dest) :
            LET r == copyItems(1, row, dest, toCopy)
                n == Len(toCopy)
                p == item(1, dest)
            IN  /\ ~r.crash
                /\ Len(r.ret) = n
                /\ DOMAIN r.items = DOMAIN items \cup Range(r.ret)
                /\ Cardinality(Range(r.ret)) = n
                /\ \A i \in 1 .. n :
                      /\ r.ret[i] \notin DOMAIN items
                      /\ r.items[p].m_children[row + i] = r.ret[i]
                      /\ r.items[r.ret[i]].m_parent = p
                      /\ isBookmarkItem(r.items, r.ret[i])
                      /\ r.items[r.ret[i]].m_key = items[toCopy[i]].m_key
                      /\ r.items[r.ret[i]].m_description = items[toCopy[i]].m_description
                      /\ r.items[r.ret[i]].m_moduleName = items[toCopy[i]].m_moduleName
                /\ Without(r.items[p].m_children, Range(r.ret)) = items[p].m_children
                /\ \A q \in DOMAIN items \ {p} : r.items[q] = items[q]
                /\ [r.items[p] EXCEPT !.m_children = items[p].m_children] = items[p]
                /\ r.needSave > 0
                /\ needSaveCalls(m_saveTimer, 1, r.needSave)[1].active

\* C6 witness: two different bookmarks can be copied between existing children.
C6_Witness ==
    \E toCopy \in BookmarkSelections, dest \in Indexes(1) :
        /\ Len(toCopy) = 2
        /\ toCopy[1] # toCopy[2]
        /\ rowCount(1, dest) >= 2
        /\ LET r == copyItems(1, 1, dest, toCopy) IN
           /\ Len(r.ret) = 2
           /\ r.items[item(1, dest)].m_children[2] = r.ret[1]
           /\ r.items[item(1, dest)].m_children[3] = r.ret[2]

\* the places (parent, position) at which item p is held as a child
Places(p) ==
    { <<q, i>> \in (DOMAIN items) \X (1 .. MaxItems) :
        i <= Len(items[q].m_children) /\ items[q].m_children[i] = p }

\* the ancestors of p found by following m_parent at most n times
RECURSIVE Ancestors(_, _)
Ancestors(p, n) ==
    IF n = 0 \/ items[p].m_parent = NULL \/ items[p].m_parent \notin DOMAIN items
    THEN {}
    ELSE {items[p].m_parent} \cup Ancestors(items[p].m_parent, n - 1)

\* C7: the nodes form a tree: every node but the root is held by exactly one
\* parent, exactly once, and m_parent is that parent; the root has no parent;
\* no node is its own ancestor; every child pointer is a live node.
C7_TreeShaped ==
    Live(1) =>
        /\ items[m_rootItem[1]].m_parent = NULL
        /\ Places(m_rootItem[1]) = {}
        /\ \A p \in DOMAIN items :
              /\ Range(items[p].m_children) \subseteq DOMAIN items
              /\ p # m_rootItem[1] =>
                    /\ Cardinality(Places(p)) = 1
                    /\ \E pl \in Places(p) : pl[1] = items[p].m_parent
              /\ p \notin Ancestors(p, Cardinality(DOMAIN items))
        /\ TreeOf(1) = DOMAIN items

\* C7 witness: the heap is full and the tree is three levels deep: a bookmark in
\* a folder in a folder below the root.
C7_Witness ==
    /\ Live(1)
    /\ Cardinality(DOMAIN items) = MaxItems
    /\ \E f, g, b \in DOMAIN items :
          /\ isFolderItem(items, f) /\ items[f].m_parent = m_rootItem[1]
          /\ isFolderItem(items, g) /\ items[g].m_parent = f
          /\ isBookmarkItem(items, b) /\ items[b].m_parent = g

-----------------------------------------------------------------------------
(* The stores, their save timers and the files *)

LiveStores == { s \in Stores : Live(s) }

\* the seconds that pass in one step of the clock
Steps == { 10, 20 }

NextSave ==
    \/ \E s \in LiveStores \cap {1} :
          Observed(AddFolder(s, 0, NULL, Str_a), <<"edit", s>>)
    \/ \E s \in LiveStores \cap {1} :
          \E count \in { rowCount(s, NULL) } \ {0} :
             Observed(RemoveRows(s, 0, count, NULL), <<"edit", s>>)
    \/ \E s \in LiveStores \cap {1} :
          Observed(Load(s, ExportFile, NULL), <<"step", 0>>)
    \/ \E s \in LiveStores :
          \E rootItem \in Indexes(s) :
             Observed(Save(s, "", rootItem), <<"step", 0>>)
    \/ \E s \in LiveStores :
          \E rootItem \in Indexes(s) \ {NULL} :
             Observed(Save(s, ExportFile, rootItem), <<"step", 0>>)
    \/ \E s \in LiveStores :
          Observed(Timeout(s), <<"timeout", s>>)
    \/ \E dt \in Steps :
          Observed(Tick(dt), <<"step", 0>>)
    \/ \E s \in LiveStores :
          Observed(Destroy(s),
                   IF m_saveTimer[s].active THEN <<"destroy, saving", s>> ELSE <<"step", 0>>)
    \/ \E s \in Stores, fileName \in { "", ExportFile } :
          Observed(Construct(s, fileName), <<"step", 0>>)

\* the process after `new BtBookmarksModel(parent)`, with a bookmark to import
InitSave == InitDefaultStore(XmlFile(DocBookmark))

SpecSave == InitSave /\ [][NextSave]_vars

-----------------------------------------------------------------------------
(* Properties of the save timer *)

\* the store that load() registered as the default and connected to slotSave
RegisteredDefault(s) == m_defaultModel = s /\ connected[s] > 0

\* C8: on the default store a needSave starts the 30-second timer only when it
\* is not running, and leaves a running timer as it is: the timer always expires
\* 30 seconds after the needSave that started it, and its timeout saves the whole
\* tree to the default file once and leaves the timer stopped.
C8_FirstDirtyArmsTimer ==
    [][ \A s \in Stores :
          /\ (RegisteredDefault(s)' /\ m_saveTimer'[s].active) =>
                /\ sinceDirty'[s] >= 0
                /\ sinceDirty'[s] + m_saveTimer'[s].remaining = SaveIntervalSeconds
          /\ (RegisteredDefault(s) /\ last' = <<"edit", s>> /\ ~crashed') =>
                /\ m_saveTimer[s].active => m_saveTimer'[s] = m_saveTimer[s]
                /\ (~m_saveTimer[s].active /\ m_saveTimer'[s].active) =>
                      m_saveTimer'[s] = TimerStarted
          /\ (RegisteredDefault(s) /\ last' = <<"timeout", s>>) =>
                /\ sinceDirty[s] = SaveIntervalSeconds
                /\ files' = saveWrites(files, items, m_rootItem[s], "")
                /\ ~m_saveTimer'[s].active
                /\ items' = items
      ]_vars

\* C8 witness: the default store was edited 20 seconds after the edit that
\* started its timer, and the timer still has 10 seconds to run.
C8_Witness ==
    /\ RegisteredDefault(1)
    /\ last = <<"edit", 1>>
    /\ m_saveTimer[1].active
    /\ sinceDirty[1] = 20
    /\ m_saveTimer[1].remaining = 10

C10_TeardownSaves ==
    [][ \A s \in Stores :
          (storeState[s] = "live" /\ storeState'[s] = "destroyed") =>
              files' = IF m_saveTimer[s].active
                       THEN saveWrites(files, items, m_rootItem[s], "")
                       ELSE files
      ]_vars

\* C10 witness: a store with a folder was destroyed while its timer was running,
\* and the default file holds the folder.
C10_Witness ==
    \E s \in Stores :
        /\ last = <<"destroy, saving", s>>
        /\ storeState[s] = "destroyed"
        /\ files[DefaultFile].kind = "xml"
        /\ Len(files[DefaultFile].root.childNodes) > 0

\* C11: save(), whatever the file name and the subtree, returns true, leaves the
\* timer of the store stopped and leaves every item as it was.
C11_SaveStopsTimer ==
    \A s \in LiveStores, fileName \in { "", ExportFile } :
        \A rootItem \in Indexes(s) :
            LET r == save(s, fileName, rootItem) IN
            /\ r.ret = TRUE
            /\ ~r.timers[s].active
            /\ r.items = items
            /\ \A t \in Stores \ {s} : r.timers[t] = m_saveTimer[t]

\* C11 witness: the timer of the default store is running, the tree holds a
\* folder, and a save of that folder to the export file stops the timer.
C11_Witness ==
    /\ Live(1)
    /\ m_saveTimer[1].active
    /\ \E rootItem \in Indexes(1) \ {NULL} :
          /\ isFolderItem(items, rootItem)
          /\ ~save(1, ExportFile, rootItem).timers[1].active
          /\ save(1, ExportFile, rootItem).files[ExportFile] # files[ExportFile]

-----------------------------------------------------------------------------
(* The life of the stores: construction, registration of the default, loads *)

\* the process before any store is constructed
InitProcess(defaultFile, exportFile) ==
    /\ items = << >>
    /\ m_rootItem = [ s \in Stores |-> NULL ]
    /\ storeState = [ s \in Stores |-> "none" ]
    /\ m_defaultModel = NULL
    /\ m_saveTimer = [ s \in Stores |-> TimerOff ]
    /\ connected = [ s \in Stores |-> 0 ]
    /\ files = [ f \in FileNames |-> IF f = ExportFile THEN exportFile ELSE defaultFile ]
    /\ sinceDirty = [ s \in Stores |-> -1 ]
    /\ lastSaved = [ s \in Stores |-> NullElement ]
    /\ last = <<"start", 0>>
    /\ crashed = FALSE
    /\ InterfaceInit

InitLife ==
    \E defaultFile \in { NoFile, EmptyFile, GarbageFile, XmlFile(DocBookmark) } :
        InitProcess(defaultFile, XmlFile(DocBookmark))

NextLife ==
    \/ \E s \in Stores :
          Observed(Construct(s, ""), <<"construct default", s>>)
    \/ \E s \in Stores :
          Observed(Construct(s, ExportFile), <<"construct", s>>)
    \/ \E s \in LiveStores :
          Observed(Load(s, "", NULL), <<"load default", s>>)
    \/ \E s \in LiveStores, fileName \in { "", ExportFile } :
          \E rootItem \in Indexes(s) :
             /\ fileName # "" \/ rootItem # NULL
             /\ Observed(Load(s, fileName, rootItem), <<"load", s>>)
    \/ \E s \in LiveStores :
          Observed(AddFolder(s, 0, NULL, Str_a), <<"edit", s>>)
    \/ \E s \in LiveStores :
          Observed(Destroy(s), <<"destroy", s>>)

SpecLife == InitLife /\ [][NextLife]_vars

\* C12: a load() without file name and without target, in a constructor or
\* later, fails the assertion when m_defaultModel is set and registers its store
\* otherwise; a load() with a file name or a target registers nothing; so
\* m_defaultModel is only ever set when it was null.
C12_DefaultRegisteredOnce ==
    [][ /\ \A s \in Stores :
             /\ (last' \in { <<"load default", s>>, <<"construct default", s>> }
                   /\ m_defaultModel # NULL) => crashed'
             /\ (last' \in { <<"load default", s>>, <<"construct default", s>> }
                   /\ m_defaultModel = NULL /\ ~crashed') =>
                   /\ m_defaultModel' = s
                   /\ connected'[s] = connected[s] + 1
             /\ (last' \in { <<"load", s>>, <<"construct", s>> } /\ ~crashed') =>
                   /\ m_defaultModel' = m_defaultModel
                   /\ connected'[s] = connected[s]
        /\ (m_defaultModel' # m_defaultModel /\ ~crashed') => m_defaultModel = NULL
      ]_vars

\* C12 witness: a default was registered, and a load() without file name and
\* target on store 2 ended the process.
C12_Witness ==
    /\ crashed
    /\ last = <<"load default", 2>>

\* C13: a running timer belongs to the store that load() registered as the
\* default: needSave on any other store starts nothing, so no other store is
\* saved by a timeout or by its destructor.
C13_OnlyDefaultArms ==
    \A s \in Stores : m_saveTimer[s].active => RegisteredDefault(s)

-----------------------------------------------------------------------------
(* The XML codec at work: documents loaded into and saved from the default store *)

\* <SwordBookmarks syntaxVersion="1"><Folder caption="a"/><Note/></SwordBookmarks>
DocUnknownTop ==
    Element("SwordBookmarks", << <<"syntaxVersion", <<49>> >> >>,
            << Element("Folder", << <<"caption", Str_a>> >>, << >>),
               Element("Note", << >>, << >>) >>)

\* <SwordBookmarks syntaxVersion="1"><Folder caption="a"><Note/>
\*   <Bookmark key="k" modulename="G" title="b"/></Folder></SwordBookmarks>
DocUnknownInFolder ==
    Element("SwordBookmarks", << <<"syntaxVersion", <<49>> >> >>,
            << Element("Folder", << <<"caption", Str_a>> >>,
                       << Element("Note", << >>, << >>),
                          BookmarkElement(<< <<"key", Str_k>>,
                                             <<"modulename", Str_GenBook>>,
                                             <<"title", Str_b>> >>) >>) >>)

\* <Bookmarks><Folder caption="a"/></Bookmarks>
DocWrongRoot ==
    Element("Bookmarks", << >>,
            << Element("Folder", << <<"caption", Str_a>> >>, << >>) >>)

\* <SwordBookmarks syntaxVersion="1"><Bookmark key="k" modulename="G" title=""/>
\*   <Folder caption="a"/></SwordBookmarks>
DocEmptyTitle ==
    Element("SwordBookmarks", << <<"syntaxVersion", <<49>> >> >>,
            << BookmarkElement(<< <<"key", Str_k>>,
                                  <<"modulename", Str_GenBook>>,
                                  <<"title", EmptyStr>> >>),
               Element("Folder", << <<"caption", Str_a>> >>, << >>) >>)

\* what the export file may hold when the process starts
ExportFiles ==
    { NoFile, EmptyFile, GarbageFile }
    \cup { XmlFile(doc) : doc \in { DocFavorites, DocBookmark, DocUnknownTop,
                                    DocUnknownInFolder, DocWrongRoot, DocEmptyTitle } }

InitCodec == \E exportFile \in ExportFiles : InitDefaultStore(exportFile)

NextCodec ==
    \/ \E rootItem \in Indexes(1) :
          Silent(Load(1, ExportFile, rootItem))
    \/ \E s \in LiveStores :
          Silent(Save(s, ExportFile, NULL))
    \/ \E s \in LiveStores :
          Silent(AddFolder(s, 0, NULL, EmptyStr))
    \/ \E s \in LiveStores :
          Silent(AddBookmark(s, -1, NULL, Str_Bible, toLocalized(Str_k), Str_d, Str_b))
    \/ \E idx \in Indexes(1) \ {NULL} :
          Silent(SetData(1, idx, EmptyStr, "display"))
    \/ \E s \in LiveStores :
          \E count \in { rowCount(s, NULL) } \ {0} :
             Silent(RemoveRows(s, 0, count, NULL))

SpecCodec == InitCodec /\ [][NextCodec]_vars

-----------------------------------------------------------------------------
(* Properties of the XML codec and of load *)

\* item q of heap b is item p of heap a read back: the same type, text (the
\* caption of a folder, the title of a bookmark), key, description and module
\* name, and the children of p read back in the same order
RECURSIVE ReadBack(_, _, _, _)
ReadBack(a, p, b, q) ==
    /\ b[q].kind = a[p].kind
    /\ b[q].m_text = a[p].m_text
    /\ b[q].m_key = a[p].m_key
    /\ b[q].m_description = a[p].m_description
    /\ b[q].m_moduleName = a[p].m_moduleName
    /\ Len(b[q].m_children) = Len(a[p].m_children)
    /\ \A i \in 1 .. Len(a[p].m_children) :
          ReadBack(a, a[p].m_children[i], b, b[q].m_children[i])

\* C14: the document written for a tree of folders and bookmarks reads back as
\* the same top-level items in the same order, each with the same captions, keys,
\* descriptions, module names and titles, an empty title included.
C14_RoundTrip ==
    (Live(1) /\ FoldersAndBookmarks(m_rootItem[1])) =>
        LET document == serializeTreeFromRootItem(items, m_rootItem[1])
            lt == loadTreeLoop(items, document.childNodes, 1, << >>)
            kids == items[m_rootItem[1]].m_children
        IN  /\ document.tag = "SwordBookmarks"
            /\ Len(lt.list) = Len(kids)
            /\ \A i \in 1 .. Len(kids) :
                  /\ lt.list[i] # NULL
                  /\ ReadBack(items, kids[i], lt.a, lt.list[i])

\* a source that is absent, empty, no XML, or XML with another root element
BadSource(file) == file.kind # "xml" \/ file.root.tag # "SwordBookmarks"

C16_UnknownTagsSkipped ==
    \A rootItem \in Indexes(1) :
        ~BadSource(files[ExportFile]) =>
            LET lt == loadTree(items, ExportFile)
                r == load(items, item(1, rootItem), ExportFile)
                known == { i \in 1 .. Len(files[ExportFile].root.childNodes) :
                             files[ExportFile].root.childNodes[i].tag \in { "Folder", "Bookmark" } }
            IN  /\ NULL \notin Range(lt.list)
                /\ Len(lt.list) = Cardinality(known)
                /\ ~r.crash
                /\ childCount(r.items, item(1, rootItem))
                      = childCount(items, item(1, rootItem)) + Cardinality(known)

\* C17: when loadTree yields n >= 1 items, load() returns true, appends the n
\* items in document order after the children of the target, and changes no
\* other item.
C17_LoadAppends ==
    \A fileName \in { "", ExportFile } :
        \A rootItem \in Indexes(1) :
            LET lt == loadTree(items, fileName)
                i == item(1, rootItem)
                r == load(items, i, fileName)
            IN  Len(lt.list) >= 1 =>
                   /\ ~r.crash
                   /\ r.ret = TRUE
                   /\ r.items[i].m_children = items[i].m_children \o lt.list
                   /\ [r.items[i] EXCEPT !.m_children = items[i].m_children] = items[i]
                   /\ \A q \in DOMAIN items \ {i} : r.items[q] = items[q]
                   /\ \A k \in 1 .. Len(lt.list) :
                         /\ lt.list[k] \notin DOMAIN items
                         /\ r.items[lt.list[k]].m_parent = i

-----------------------------------------------------------------------------
(* Properties of the row operations and of the dirty marking *)

\* C18: for row >= 0 and row + count <= rowCount(parent), removeRows removes the
\* children at row .. row+count-1 with their subtrees and nothing else: the row
\* count drops by count, the other children keep their order, and no removed
\* item is left in the heap or reachable from the root.
C18_RemoveRowsExact ==
    \A parent \in Indexes(1), count \in 0 .. MaxCount :
        \A row \in Rows(1, parent) :
            row + count <= rowCount(1, parent) =>
                LET p == item(1, parent)
                    kids == items[p].m_children
                    gone == UNION { Subtree(items, kids[j]) : j \in row + 1 .. row + count }
                    r == removeRows(1, row, count, parent)
                IN  /\ ~r.crash
                    /\ r.ret = TRUE
                    /\ r.items[p].m_children
                          = SubSeq(kids, 1, row) \o SubSeq(kids, row + count + 1, Len(kids))
                    /\ childCount(r.items, p) = rowCount(1, parent) - count
                    /\ DOMAIN r.items = DOMAIN items \ gone
                    /\ Subtree(r.items, m_rootItem[1]) \cap gone = {}
                    /\ \A q \in DOMAIN r.items \ {p} : r.items[q] = items[q]

\* C18 witness: of two children the second has a child of its own, and removing
\* the second leaves the first.
C18_Witness ==
    \E parent \in Indexes(1) :
        /\ rowCount(1, parent) = 2
        /\ childCount(items, child(items, item(1, parent), 1)) = 1
        /\ LET r == removeRows(1, 1, 1, parent) IN
           /\ ~r.crash
           /\ Cardinality(DOMAIN r.items) = Cardinality(DOMAIN items) - 2
           /\ r.items[item(1, parent)].m_children
                 = <<child(items, item(1, parent), 0)>>

\* the timer of the default store runs after the needSave calls of result r,
\* of which there is at least one
Armed(r) ==
    /\ r.needSave >= 1
    /\ needSaveCalls(m_saveTimer, 1, r.needSave)[1].active

\* C19: on the default store the timer runs after a completed removeRows, after
\* addBookmark and addFolder below a folder, after a copyItems that was not
\* rejected, after setDescription on a bookmark and after sortItems on a folder,
\* which calls needSave once for every folder it sorts.
C19_MutationsArmTimer ==
    (Live(1) /\ m_defaultModel = 1) =>
        /\ \A parent \in Indexes(1), count \in 0 .. MaxCount :
              \A row \in Rows(1, parent) :
                 ~removeRows(1, row, count, parent).crash =>
                     Armed(removeRows(1, row, count, parent))
        /\ \A parent \in FolderIndexes :
              \A row \in Rows(1, parent) :
                 /\ Armed(addBookmark(1, row, parent, Str_GenBook, Str_k, Str_d, Str_b))
                 /\ Armed(addFolder(1, row, parent, Str_a))
        /\ \A parent \in Indexes(1), toCopy \in Selections(1) :
              LET st == copyState(1, parent, toCopy) IN
              (~st.nullDeref /\ ~copyRejected(st)) =>
                  Armed(copyItems(1, 0, parent, toCopy))
        /\ \A b \in BookmarkIndexes : Armed(setDescription(1, b, Str_d))
        /\ \A f \in FolderIndexes, order \in { "ascending", "descending" } :
              \A r \in sortItems(1, f, order) :
                 /\ Armed(r)
                 /\ r.needSave = IF f = NULL
                                 THEN Cardinality({ q \in TreeOf(1) : isFolderItem(items, q) })
                                 ELSE 1

\* C19 witness: the timer of the default store is stopped, the tree holds a
\* folder with a bookmark, and setting the description of the bookmark or sorting
\* the root starts the timer.
C19_Witness ==
    /\ Live(1) /\ m_defaultModel = 1
    /\ ~m_saveTimer[1].active
    /\ \E f \in FolderIndexes \ {NULL}, b \in BookmarkIndexes :
          /\ items[b].m_parent = f
          /\ Armed(setDescription(1, b, Str_d))
          /\ \A r \in sortItems(1, NULL, "ascending") : r.needSave = 2

\* C20: insertRows(row, count, parent) with 0 <= row <= rowCount(parent) puts
\* count new items that are neither folder nor bookmark at row .. row+count-1,
\* keeps the former children in their order around them, changes no other item
\* and calls needSave not once.
C20_InsertRowsPlaceholders ==
    \A parent \in Indexes(1), count \in 1 .. MaxCount :
        \A row \in Rows(1, parent) :
            LET p == item(1, parent)
                kids == items[p].m_children
                r == insertRows(1, row, count, parent)
                now == r.items[p].m_children
            IN  /\ ~r.crash
                /\ r.ret = TRUE
                /\ Len(now) = Len(kids) + count
                /\ SubSeq(now, 1, row) = SubSeq(kids, 1, row)
                /\ SubSeq(now, row + count + 1, Len(now)) = SubSeq(kids, row + 1, Len(kids))
                /\ \A j \in row + 1 .. row + count :
                      /\ now[j] \notin DOMAIN items
                      /\ r.items[now[j]].kind = "Base"
                      /\ r.items[now[j]].m_parent = p
                      /\ r.items[now[j]].m_children = << >>
                /\ Cardinality({ now[j] : j \in row + 1 .. row + count }) = count
                /\ \A q \in DOMAIN items \ {p} : r.items[q] = items[q]
                /\ r.needSave = 0
                /\ needSaveCalls(m_saveTimer, 1, r.needSave) = m_saveTimer

-----------------------------------------------------------------------------
(* Properties of setData, sortItems, addBookmark and addFolder *)

\* the roles a caller passes to setData: Qt::DisplayRole, Qt::EditRole,
\* Qt::ToolTipRole and, for any other, Qt::DecorationRole
Roles == { "display", "edit", "tooltip", "decoration" }

\* C21: setData with the display, edit or tooltip role sets the text or the
\* tooltip of the addressed item and returns true; it calls needSave exactly when
\* the item is a folder or a bookmark, so on any other item the timer stays as
\* it was; with another role it returns false and changes nothing.
C21_SetDataDirtiesTypedItems ==
    \A idx \in Indexes(1), val \in { EmptyStr, Str_b }, role \in Roles :
        LET i == item(1, idx)
            r == setData(1, idx, val, role)
            typed == items[i].kind \in { "Folder", "Bookmark" }
        IN  /\ ~r.crash
            /\ role \in { "display", "edit" } =>
                  /\ r.ret = TRUE
                  /\ r.items = [items EXCEPT ![i].m_text = val]
            /\ role = "tooltip" =>
                  /\ r.ret = TRUE
                  /\ r.items = [items EXCEPT ![i].m_tooltip = val]
            /\ role \in { "display", "edit", "tooltip" } =>
                  /\ (r.needSave >= 1) <=> typed
                  /\ ~typed => needSaveCalls(m_saveTimer, 1, r.needSave) = m_saveTimer
                  /\ (typed /\ m_defaultModel = 1) =>
                        needSaveCalls(m_saveTimer, 1, r.needSave)[1].active
            /\ role \notin { "display", "edit", "tooltip" } =>
                  /\ r.ret = FALSE
                  /\ r.items = items
                  /\ r.needSave = 0

\* C21 witness: with the timer stopped the tree holds a bookmark and an item that
\* is neither folder nor bookmark; setting the text of the first starts the
\* timer, setting the text of the second changes the text and starts nothing.
C21_Witness ==
    /\ Live(1) /\ m_defaultModel = 1
    /\ ~m_saveTimer[1].active
    /\ \E b \in BookmarkIndexes, q \in Indexes(1) \ {NULL} :
          /\ items[q].kind = "Base"
          /\ needSaveCalls(m_saveTimer, 1, setData(1, b, Str_a, "edit").needSave)[1].active
          /\ setData(1, q, Str_a, "display").items[q].m_text = Str_a
          /\ items[q].m_text # Str_a
          /\ ~needSaveCalls(m_saveTimer, 1, setData(1, q, Str_a, "display").needSave)[1].active


\* the children kids are in the requested order by the comparison of their texts
InOrder(a, kids, order) ==
    \A i, j \in 1 .. Len(kids) :
        i < j => IF order = "ascending"
                 THEN compare(a[kids[i]].m_text, a[kids[j]].m_text) <= 0
                 ELSE compare(a[kids[i]].m_text, a[kids[j]].m_text) >= 0

\* C22: after sortItems on the root the children of every folder of the tree, at
\* any depth, are in the requested order by the comparison of their texts, and
\* every folder holds the children it held, each once; no item is changed
\* otherwise.
C22_SortRootSortsEveryFolder ==
    \A order \in { "ascending", "descending" }, root \in Indexes(1) \cap {NULL} :
        \A r \in sortItems(1, root, order) :
            /\ ~r.crash
            /\ DOMAIN r.items = DOMAIN items
            /\ \A q \in DOMAIN items :
                  /\ Len(r.items[q].m_children) = Len(items[q].m_children)
                  /\ Range(r.items[q].m_children) = Range(items[q].m_children)
                  /\ [r.items[q] EXCEPT !.m_children = << >>]
                        = [items[q] EXCEPT !.m_children = << >>]
            /\ \A f \in TreeOf(1) :
                  isFolderItem(items, f) => InOrder(r.items, r.items[f].m_children, order)

\* C22 witness: a folder below the root holds two children in descending order
\* of their texts, and sorting the root ascending exchanges them.
C22_Witness ==
    \E f \in FolderIndexes \ {NULL} :
        /\ childCount(items, f) = 2
        /\ compare(items[child(items, f, 0)].m_text, items[child(items, f, 1)].m_text) > 0
        /\ \A r \in sortItems(1, NULL, "ascending") :
              r.items[f].m_children = <<child(items, f, 1), child(items, f, 0)>>


\* the indexes of the default store whose item is no folder
NonFolderIndexes == Indexes(1) \ FolderIndexes

\* C23: addBookmark and addFolder on a parent that is no folder (a bookmark or
\* an item that is neither) return the invalid index, leave the heap as it was
\* and call needSave not once, so that the timer stays as it was.
C23_AddBelowNonFolderRejected ==
    \A parent \in NonFolderIndexes, row \in -1 .. MaxItems, name \in { EmptyStr, Str_a } :
        LET b == addBookmark(1, row, parent, Str_GenBook, Str_k, Str_d, Str_b)
            f == addFolder(1, row, parent, name)
        IN  /\ ~b.crash /\ ~f.crash
            /\ b.ret = NULL /\ f.ret = NULL
            /\ b.items = items /\ f.items = items
            /\ b.needSave = 0 /\ f.needSave = 0
            /\ needSaveCalls(m_saveTimer, 1, b.needSave) = m_saveTimer
            /\ needSaveCalls(m_saveTimer, 1, f.needSave) = m_saveTimer

\* C23 witness: the tree holds a bookmark and an item that is neither folder
\* nor bookmark, the timer is stopped, and adding below either returns the
\* invalid index.
C23_Witness ==
    /\ ~m_saveTimer[1].active
    /\ \E b \in BookmarkIndexes, q \in NonFolderIndexes :
          /\ items[q].kind = "Base"
          /\ addBookmark(1, -1, b, Str_GenBook, Str_k, Str_d, Str_b).ret = NULL
          /\ addFolder(1, 0, q, Str_a).ret = NULL
          /\ addFolder(1, 0, q, Str_a).items = items

\* C24: addBookmark below a folder of n children inserts one new bookmark, at row
\* for 0 <= row <= n and at n + 1 + row for -(n + 1) <= row < 0; the former
\* children keep their order around it, and the index returned is that of the
\* new bookmark, whose position in the parent is the one named.
C24_AddBookmarkPosition ==
    \A parent \in FolderIndexes :
        \A row \in -(rowCount(1, parent) + 1) .. rowCount(1, parent) :
            LET p == item(1, parent)
                kids == items[p].m_children
                n == Len(kids)
                pos == IF row < 0 THEN n + 1 + row ELSE row
                r == addBookmark(1, row, parent, Str_GenBook, Str_k, Str_d, Str_b)
                now == r.items[p].m_children
            IN  /\ ~r.crash
                /\ DOMAIN r.items = DOMAIN items \cup {r.ret}
                /\ r.ret \notin DOMAIN items
                /\ r.items[r.ret].kind = "Bookmark"
                /\ r.items[r.ret].m_parent = p
                /\ r.items[r.ret].m_children = << >>
                /\ now = SubSeq(kids, 1, pos) \o <<r.ret>> \o SubSeq(kids, pos + 1, n)
                /\ indexOf(r.items, r.ret) = pos
                /\ index(r.items, 1, pos, parent) = r.ret
                /\ \A q \in DOMAIN items \ {p} : r.items[q] = items[q]

\* C24 witness: a folder holds two children; row -1 puts the new bookmark last,
\* row -2 and row 1 put it between the two.
C24_Witness ==
    \E parent \in FolderIndexes :
        /\ rowCount(1, parent) = 2
        /\ Cardinality(DOMAIN items) < MaxItems
        /\ LET kids == items[item(1, parent)].m_children
               last1 == addBookmark(1, -1, parent, Str_GenBook, Str_k, Str_d, Str_b)
               mid1 == addBookmark(1, -2, parent, Str_GenBook, Str_k, Str_d, Str_b)
               mid2 == addBookmark(1, 1, parent, Str_GenBook, Str_k, Str_d, Str_b)
           IN  /\ last1.items[item(1, parent)].m_children = Append(kids, last1.ret)
               /\ mid1.items[item(1, parent)].m_children = <<kids[1], mid1.ret, kids[2]>>
               /\ mid2.items = mid1.items

\* C25: addFolder below a folder at a row in 0 .. rowCount(parent) inserts one
\* new folder without children at that row; its text is the name given, or
\* "New folder" for an empty name; the index returned is that of the new folder.
C25_AddFolderAtRow ==
    \A parent \in FolderIndexes, name \in { EmptyStr, Str_a } :
        \A row \in Rows(1, parent) :
            LET p == item(1, parent)
                kids == items[p].m_children
                r == addFolder(1, row, parent, name)
            IN  /\ ~r.crash
                /\ DOMAIN r.items = DOMAIN items \cup {r.ret}
                /\ r.ret \notin DOMAIN items
                /\ r.items[r.ret].kind = "Folder"
                /\ r.items[r.ret].m_parent = p
                /\ r.items[r.ret].m_children = << >>
                /\ r.items[r.ret].m_text = (IF name = EmptyStr THEN Str_NewFolder ELSE name)
                /\ r.items[p].m_children
                      = SubSeq(kids, 1, row) \o <<r.ret>> \o SubSeq(kids, row + 1, Len(kids))
                /\ indexOf(r.items, r.ret) = row
                /\ index(r.items, 1, row, parent) = r.ret
                /\ \A q \in DOMAIN items \ {p} : r.items[q] = items[q]

\* C25 witness: a folder below the root holds a child, and a folder added to it
\* at row 0 with the empty name is called "New folder" and comes before the child.
C25_Witness ==
    \E parent \in FolderIndexes \ {NULL} :
        /\ rowCount(1, parent) = 1
        /\ LET r == addFolder(1, 0, parent, EmptyStr) IN
           /\ r.items[r.ret].m_text = Str_NewFolder
           /\ r.items[parent].m_children = <<r.ret>> \o items[parent].m_children

-----------------------------------------------------------------------------
(* Properties of the decoding of a Bookmark element *)

\* the elements of a document: the element e and those below it
RECURSIVE ElementsOf(_)
ElementsOf(e) ==
    {e} \cup UNION { ElementsOf(e.childNodes[i]) : i \in 1 .. Len(e.childNodes) }

\* the Bookmark elements the export file holds
BookmarkElements ==
    IF files[ExportFile].kind = "xml"
    THEN { e \in ElementsOf(files[ExportFile].root) : e.tag = "Bookmark" }
    ELSE {}

\* the element e without its attribute name
dropAttribute(e, name) ==
    [e EXCEPT !.attrs = SelectSeq(@, LAMBDA pair : pair[1] # name)]

BookmarkAttributes == { "key", "description", "modulename", "title" }

\* C26: a Bookmark element decodes to a bookmark whose key, description, module
\* name and text are the values of the attributes key, description, modulename
\* and title, and the empty string for each attribute the element lacks.
C26_MissingAttributeEmpty ==
    \A e \in BookmarkElements, name \in BookmarkAttributes \cup { "" } :
        LET e1 == dropAttribute(e, name)
            r == handleXmlElement(items, e1, NULL)
        IN  /\ r.p # NULL
            /\ r.a[r.p].kind = "Bookmark"
            /\ r.a[r.p].m_key = attribute(e1, "key")
            /\ r.a[r.p].m_description = attribute(e1, "description")
            /\ r.a[r.p].m_moduleName = attribute(e1, "modulename")
            /\ r.a[r.p].m_text = attribute(e1, "title")

-----------------------------------------------------------------------------
(* Properties of the positions and indexes of items *)

\* C27: index() of an item without parent, the root, returns -1 and does not
\* fail; index() of an item with a parent returns the position at which the
\* children of the parent hold the item.
C27_IndexOfItem ==
    \A p \in TreeOf(1) :
        LET r == itemIndex(items, p) IN
        /\ ~r.crash
        /\ r.items = items
        /\ items[p].m_parent = NULL => r.ret = -1
        /\ items[p].m_parent # NULL =>
              /\ r.ret \in 0 .. childCount(items, items[p].m_parent) - 1
              /\ child(items, items[p].m_parent, r.ret) = p


\* C28: index(row, column, parent) is the row-th child of the item of parent for
\* 0 <= row < rowCount(parent) and the invalid index otherwise; it is never the
\* root; parent() of a child of the root is the invalid index, and parent() of
\* index(row, 0, p) designates the item of p.
C28_IndexAndParent ==
    \A p \in Indexes(1), row \in -1 .. MaxItems :
        LET ix == index(items, 1, row, p) IN
        /\ (0 <= row /\ row < rowCount(1, p)) =>
              /\ ix = child(items, item(1, p), row)
              /\ ix # NULL
              /\ item(1, ix) # m_rootItem[1]
              /\ itemIndex(items, ix).ret = row
              /\ parentIndex(1, ix) = p
              /\ item(1, parentIndex(1, ix)) = item(1, p)
              /\ p = NULL => parentIndex(1, ix) = NULL
        /\ ~(0 <= row /\ row < rowCount(1, p)) => ix = NULL

\* C28 witness: a folder below the root holds a child; the index of row 0 below
\* the folder has the folder for parent, the index of the folder has the invalid
\* index for parent, and row 1 below the folder gives the invalid index.
C28_Witness ==
    \E f \in FolderIndexes \ {NULL} :
        /\ items[f].m_parent = m_rootItem[1]
        /\ rowCount(1, f) = 1
        /\ parentIndex(1, index(items, 1, 0, f)) = f
        /\ parentIndex(1, f) = NULL
        /\ index(items, 1, 1, f) = NULL

-----------------------------------------------------------------------------
(* Properties of the default registration over the life of the stores *)

\* C29: m_defaultModel is null or designates a live store: the destructor of the
\* default store releases the registration, so that a later default store can
\* be constructed and needSave never compares against a destroyed store.
C29_DefaultIsLive ==
    m_defaultModel # NULL => Live(m_defaultModel)

\* C30: after a load() without file name and without target that did not end
\* the process, in a constructor or later, the store is the registered default
\* with its timer connected to slotSave, whatever the default file held and
\* whatever load() returned.
C30_DefaultLoadRegisters ==
    \A s \in Stores :
        (~crashed /\ last \in { <<"construct default", s>>, <<"load default", s>> }) =>
            /\ Live(s)
            /\ m_defaultModel = s
            /\ connected[s] >= 1

\* C30 witness: the default file is absent, empty or no XML, the constructor's
\* load() found nothing and returns false, and the store is the registered default.
C30_Witness ==
    \E s \in Stores :
        /\ ~crashed
        /\ last = <<"construct default", s>>
        /\ files[DefaultFile].kind \in { "absent", "empty", "garbage" }
        /\ rowCount(s, NULL) = 0
        /\ load(items, m_rootItem[s], "").ret = FALSE
        /\ RegisteredDefault(s)

-----------------------------------------------------------------------------
(* Properties of the shape of the tree and of the range assertions *)

\* C31: only folders, the root among them, have children: no bookmark and no
\* item that is neither folder nor bookmark ever holds a child.
C31_OnlyFoldersHaveChildren ==
    \A p \in TreeOf(1) :
        items[p].m_children # << >> => isFolderItem(items, p)


\* C32: the assertion of insertRows holds for every row in 0 .. rowCount(parent)
\* and every count >= 1, rows appended at rowCount(parent) included, and the
\* rows are then inserted; the assertion of removeRows holds exactly when
\* row + count <= rowCount(parent).
C32_RangeAssertions ==
    \A parent \in Indexes(1), count \in 0 .. MaxCount, row \in 0 .. MaxItems :
        /\ (count >= 1 /\ row <= rowCount(1, parent)) =>
              /\ ~insertRows(1, row, count, parent).crash
              /\ childCount(insertRows(1, row, count, parent).items, item(1, parent))
                    = rowCount(1, parent) + count
        /\ ~removeRows(1, row, count, parent).crash <=> row + count <= rowCount(1, parent)

-----------------------------------------------------------------------------
(* Properties of the texts of copied and added bookmarks *)

\* the texts of the bookmarks among the children of p, in order
BookmarkTexts(a, p) ==
    LET kids == SelectSeq(a[p].m_children, LAMBDA c : isBookmarkItem(a, c))
    IN  [ i \in 1 .. Len(kids) |-> a[kids[i]].m_text ]

\* C33: a bookmark copied by copyItems has the text of its source, and so have
\* the bookmarks of a folder copied by deepCopy, whether the text is the header
\* the constructor made, was set by the user or came from a title attribute.
C33_CopyKeepsTitle ==
    /\ \A toCopy \in BookmarkSelections, dest \in FolderIndexes :
          LET r == copyItems(1, 0, dest, toCopy) IN
          /\ ~r.crash
          /\ Len(r.ret) = Len(toCopy)
          /\ \A i \in 1 .. Len(toCopy) :
                r.items[r.ret[i]].m_text = items[toCopy[i]].m_text
    /\ \A f \in FolderIndexes \ {NULL} :
          LET r == deepCopy(items, f) IN
          BookmarkTexts(r.a, r.p) = BookmarkTexts(items, f)

-----------------------------------------------------------------------------
(* Properties of sortItems below the root *)

\* C34: sortItems on a folder that is not the root puts the children of that
\* folder in the requested order and changes nothing else: every other item,
\* the folders below it included, keeps its children in their order, every item
\* keeps its parent, and needSave is called once; sortItems on an item that is
\* no folder changes nothing and calls needSave not once.
C34_SortBelowRootIsLocal ==
    \A f \in Indexes(1) \ {NULL}, order \in { "ascending", "descending" } :
        \A r \in sortItems(1, f, order) :
            /\ ~r.crash
            /\ DOMAIN r.items = DOMAIN items
            /\ \A q \in DOMAIN items \ {f} : r.items[q] = items[q]
            /\ [r.items[f] EXCEPT !.m_children = << >>]
                  = [items[f] EXCEPT !.m_children = << >>]
            /\ isFolderItem(items, f) =>
                  /\ Len(r.items[f].m_children) = Len(items[f].m_children)
                  /\ Range(r.items[f].m_children) = Range(items[f].m_children)
                  /\ InOrder(r.items, r.items[f].m_children, order)
                  /\ r.needSave = 1
            /\ ~isFolderItem(items, f) =>
                  /\ r.items = items
                  /\ r.needSave = 0
                  /\ needSaveCalls(m_saveTimer, 1, r.needSave) = m_saveTimer

\* C34 witness: a folder below the root holds a folder before a bookmark whose
\* text comes first; sorting it ascending exchanges the two, calls needSave once
\* and leaves the root and the inner folder as they were.
C34_Witness ==
    \E f \in FolderIndexes \ {NULL} :
        /\ childCount(items, f) = 2
        /\ isFolderItem(items, child(items, f, 0))
        /\ isBookmarkItem(items, child(items, f, 1))
        /\ \A r \in sortItems(1, f, "ascending") :
              /\ r.items[f].m_children = <<child(items, f, 1), child(items, f, 0)>>
              /\ r.needSave = 1
              /\ r.items[m_rootItem[1]] = items[m_rootItem[1]]

-----------------------------------------------------------------------------
(* Export and import of subtrees: save() of a subtree to the export file and *)
(* load() of the export file into a target                                   *)

\* the default store, empty, and no export file yet
InitExport == InitDefaultStore(NoFile)

NextExport ==
    \/ \E parent \in Indexes(1) :
          Silent(InsertRows(1, 0, 1, parent))
    \/ \E parent \in Indexes(1) :
          Silent(AddFolder(1, 0, parent, Str_a))
    \/ \E parent \in Indexes(1) :
          Silent(AddBookmark(1, -1, parent, Str_GenBook, Str_k, Str_d, Str_b))
    \/ \E rootItem \in Indexes(1) :
          Silent(Save(1, ExportFile, rootItem))
    \/ \E rootItem \in Indexes(1) :
          Silent(Load(1, ExportFile, rootItem))

SpecExport == InitExport /\ [][NextExport]_vars


\* the folders and bookmarks among the children of p, in order
TypedChildren(a, p) ==
    SelectSeq(a[p].m_children, LAMBDA c : isFolderItem(a, c) \/ isBookmarkItem(a, c))

\* element e stands for item q and its descendants: a Folder element with the
\* text as caption or a Bookmark element with key, description, module name and
\* title, and below it, in order, the elements for the children of q that are
\* folders or bookmarks
RECURSIVE Represents(_, _, _)
Represents(e, a, q) ==
    /\ isFolderItem(a, q) => e.tag = "Folder" /\ attribute(e, "caption") = a[q].m_text
    /\ isBookmarkItem(a, q) =>
          /\ e.tag = "Bookmark"
          /\ attribute(e, "key") = a[q].m_key
          /\ attribute(e, "description") = a[q].m_description
          /\ attribute(e, "modulename") = a[q].m_moduleName
          /\ attribute(e, "title") = a[q].m_text
    /\ Len(e.childNodes) = Len(TypedChildren(a, q))
    /\ \A i \in 1 .. Len(e.childNodes) :
          Represents(e.childNodes[i], a, TypedChildren(a, q)[i])

\* item q of heap b is a copy of item p of heap a as the export file carries
\* it: the same type and fields, and copies of the children of p that are
\* folders or bookmarks for children
RECURSIVE ImportedCopy(_, _, _, _)
ImportedCopy(a, p, b, q) ==
    /\ b[q].kind = a[p].kind
    /\ b[q].m_text = a[p].m_text
    /\ b[q].m_key = a[p].m_key
    /\ b[q].m_description = a[p].m_description
    /\ b[q].m_moduleName = a[p].m_moduleName
    /\ Len(b[q].m_children) = Len(TypedChildren(a, p))
    /\ \A i \in 1 .. Len(b[q].m_children) :
          /\ b[b[q].m_children[i]].m_parent = q
          /\ ImportedCopy(a, TypedChildren(a, p)[i], b, b[q].m_children[i])

\* C35: save(file, F) writes a document whose top-level elements stand, in
\* order, for the children of F that are folders or bookmarks, each with all its
\* descendants other than items that are neither and what is below those; there
\* is no element for F itself.  When the export file holds what save(file, F)
\* writes, load(file, target) appends copies of those children of F to the
\* target, and returns false without a change when there are none.
C35_SaveEmitsSubtree ==
    \A F \in Indexes(1) :
        LET written == save(1, ExportFile, F).files[ExportFile]
            kids == TypedChildren(items, item(1, F))
        IN  /\ written.kind = "xml"
            /\ written.root.tag = "SwordBookmarks"
            /\ Len(written.root.childNodes) = Len(kids)
            /\ \A i \in 1 .. Len(kids) :
                  Represents(written.root.childNodes[i], items, kids[i])
            /\ files[ExportFile] = written =>
                  \A target \in Indexes(1) :
                      LET t == item(1, target)
                          r == load(items, t, ExportFile)
                      IN  /\ ~r.crash
                          /\ r.ret = (kids # << >>)
                          /\ kids = << >> => r.items = items
                          /\ kids # << >> =>
                                LET now == r.items[t].m_children
                                    n == Len(items[t].m_children)
                                IN  /\ Len(now) = n + Len(kids)
                                    /\ SubSeq(now, 1, n) = items[t].m_children
                                    /\ \A i \in 1 .. Len(kids) :
                                          /\ now[n + i] \notin DOMAIN items
                                          /\ r.items[now[n + i]].m_parent = t
                                          /\ ImportedCopy(items, kids[i], r.items, now[n + i])

-----------------------------------------------------------------------------
(* The throttling of highlight requests in BtQmlInterface *)

\* a step of the interface, recorded by name; the bookmark stores are not involved
Interface(A, name) == A /\ last' = <<name, 0>> /\ UNCHANGED storeVars

\* the event loop delivers the event of the running highlight timer
HighlightTick == Interface(TimerEvent(m_highlightWordsTimerId), "highlight timer")

InitHighlight == InitProcess(NoFile, NoFile)

NextHighlight ==
    \/ \E words \in { Str_a, Str_b }, caseSensitive \in BOOLEAN :
          Interface(SetHighlightWords(words, caseSensitive), "setHighlightWords")
    \/ HighlightTick
    \/ Interface(TimerEvent(m_linkTimerId), "link timer")
    \/ \E url \in { "", "sword://Bible/KJV/John 3:16" } :
          Interface(SetMagReferenceByUrl(url), "setMagReferenceByUrl")
    \/ \E backward \in BOOLEAN :
          Interface(FindText(backward), "findText")

\* a running timer keeps firing and the event loop delivers its events
SpecHighlight == InitHighlight /\ [][NextHighlight]_vars /\ WF_vars(HighlightTick)


\* what a tick of the highlight timer does to a waiting request
HighlightTickEffect ==
    /\ (m_throttledHighlightWords # NoValue
          /\ m_throttledHighlightWords # m_lastAppliedHighlightWords)
       => /\ m_moduleTextModel'.setHighlightWordsCalls =
                m_moduleTextModel.setHighlightWordsCalls + 1
          /\ m_moduleTextModel'.highlightWords = m_throttledHighlightWords
          /\ m_lastAppliedHighlightWords' = m_throttledHighlightWords
          /\ m_throttledHighlightWords' = NoValue
          /\ m_highlightWordsTimerId' = m_highlightWordsTimerId
    /\ (m_throttledHighlightWords # NoValue
          /\ m_throttledHighlightWords = m_lastAppliedHighlightWords)
       => /\ m_moduleTextModel' = m_moduleTextModel
          /\ m_lastAppliedHighlightWords' = m_lastAppliedHighlightWords
          /\ m_throttledHighlightWords' = NoValue
          /\ m_highlightWordsTimerId' = m_highlightWordsTimerId
    /\ m_throttledHighlightWords = NoValue
       => /\ m_highlightWordsTimerId' = 0
          /\ m_moduleTextModel' = m_moduleTextModel
          /\ m_lastAppliedHighlightWords' = m_lastAppliedHighlightWords

\* C37: a waiting highlight request implies that the highlight timer runs; a
\* tick of that timer hands a waiting request that differs from the last
\* applied one to the text model once and makes it the last applied one, drops
\* a waiting request equal to the last applied one without handing it over,
\* and stops the timer when nothing waits; so every waiting request is
\* eventually applied or dropped, and once the calls of setHighlightWords have
\* ended the timer stops for good.
C37_HighlightThrottling ==
    /\ [](m_throttledHighlightWords # NoValue => m_highlightWordsTimerId # 0)
    /\ [][HighlightTick => HighlightTickEffect]_vars
    /\ (m_throttledHighlightWords # NoValue) ~> (m_throttledHighlightWords = NoValue)
    /\ <>[](m_highlightWordsTimerId = 0)

\* a tick has stopped the timer after all the requests were made, one of them
\* applied and the last one, equal to the applied one, dropped
C37_Witness ==
    /\ last = <<"highlight timer", 0>>
    /\ highlightRequests = MaxRequests
    /\ m_moduleTextModel.setHighlightWordsCalls = 1
    /\ m_moduleTextModel.highlightWords = m_lastAppliedHighlightWords
    /\ m_lastAppliedHighlightWords # NoValue
    /\ m_throttledHighlightWords = NoValue
    /\ m_highlightWordsTimerId = 0


-----------------------------------------------------------------------------
(* addBookmark and the title *)

\* C36: the text of the bookmark that addBookmark creates is the header
\* "<key> (<module name>)" made of the key as it is passed and the name of the
\* module, whatever title is passed.
C36_AddBookmarkIgnoresTitle ==
    \A parent \in FolderIndexes :
        \A moduleName \in { Str_GenBook, Str_Bible },
           k \in { Str_k, toLocalized(Str_k) },
           title \in { EmptyStr, Str_a, Str_b } :
            LET r == addBookmark(1, -1, parent, moduleName, k, Str_d, title)
            IN  /\ ~r.crash
                /\ r.ret # NULL
                /\ r.items[r.ret].m_text = toHeader(k, moduleName)
                /\ r.items[r.ret].m_text # title

\* C36 witness: below a folder of a store with room for one more item, a bookmark
\* added with title "a" and one added with no title show the same header, and for
\* a verse module the header holds the key as passed, not the stored key; the
\* store already holds a bookmark that addBookmark made with title "b".
C36_Witness ==
    \E parent \in FolderIndexes :
        /\ Cardinality(DOMAIN items) < MaxItems
        /\ \E b \in TreeOf(1) :
              /\ isBookmarkItem(items, b)
              /\ items[b].m_text = toHeader(Str_k, Str_GenBook)
              /\ items[b].m_description = Str_d
        /\ LET titled == addBookmark(1, -1, parent, Str_Bible, toLocalized(Str_k), Str_d, Str_a)
               plain == addBookmark(1, -1, parent, Str_Bible, toLocalized(Str_k), Str_d, EmptyStr)
           IN  /\ titled.ret # NULL
               /\ titled.items[titled.ret].m_text = plain.items[plain.ret].m_text
               /\ titled.items[titled.ret].m_text = toHeader(toLocalized(Str_k), Str_Bible)
               /\ titled.items[titled.ret].m_key = Str_k

=============================================================================
